---- MODULE Spec2Model ----
(***************************************************************************)
(* SpatialPathDB: the spatial statistics and density estimation engine     *)
(* (spatial_analysis/spatial_statistics.py, density_estimation.py).        *)
(*                                                                         *)
(* An analysis invocation constructs one object (a SpatialStatisticsEngine *)
(* or a DensityEstimator) from caller-supplied arrays and then calls its   *)
(* operations.  Every operation is a synchronous computation; its outcome  *)
(* is recorded in `result`:                                                *)
(*    tag = "ok"     the call returned a value (val)                       *)
(*    tag = "error"  the call returned {'error': err}                      *)
(*    tag = "raise"  the call ended in the Python exception named by err   *)
(* `queries` counts the KDTree queries the call made before it ended.      *)
(*                                                                         *)
(* Numbers.  Coordinates, radii, sizes and areas are integers.  Euclidean  *)
(* distances are carried as their squares (d <= r iff d^2 <= r^2 for       *)
(* r >= 0, and min/max commute with squaring), ratios as fractions         *)
(* [num, den].  Result fields that need sqrt or pi (l_function,            *)
(* k_expected_csr, mean/std/percentiles of distances) are not carried.     *)
(* The Gaussian kernel of the smoothing stage has its weights in           *)
(* hundredths; the surface of the kernel density estimate is recorded by   *)
(* the size of its sample and by whether its values are finite.            *)
(*                                                                         *)
(* Further parts, each with its own next-state relation over the same      *)
(* variables (the variables of the other parts stay unchanged):            *)
(*    SpecKde      compute_kde on arrays above the subsample cap, with     *)
(*                 the state of the global numpy generator (np_random)     *)
(*    SpecWorker   one Celery job of workers/analysis_worker.py: status    *)
(*                 writes, batch inserts, retries, loss of the worker      *)
(*    SpecConn     the get_db_connection context manager                   *)
(*    SpecBatch    CellDetectionSimulator.generate_detections              *)
(*    SpecCenters  SyntheticSlideGenerator.generate_cluster_centers and    *)
(*                 the cluster assignment of generate_cells_gmm            *)
(* An array above the subsample cap is carried as a tile of its points     *)
(* and its length n_centroids.                                             *)
(***************************************************************************)
EXTENDS Integers, Sequences, FiniteSets, TLC

VARIABLES obj, centroids, n_centroids, labels, tree, bounds, bounds_param,
          op, args, result, np_random, prev,
          task, plan, slide_found, want_ripley, pc, retries, attempts, losses,
          outcome, status, writes, n_objects, total_inserted, batch_count,
          reported, exc, subs,
          cm_pc, calls, body, pending, raised, conns, commits,
          gen_pc, gen_cells, slide_id, batch_size, confidence_threshold,
          gen_pos, batch, yielded,
          cc_pc, width, n_clusters, centers, c_attempts, n_cells, cells_per_cluster

\* The point array self.centroids is carried by `centroids` and its length by
\* n_centroids.  An array of up to 10 points is carried whole
\* (n_centroids = Len(centroids)); an array of more than 50,000 points is
\* carried as a tile of 9 or 10 points that the array repeats cyclically.
engineVars ==
    <<obj, centroids, n_centroids, labels, tree, bounds, bounds_param,
      op, args, result>>

\* np_random is the state of the process-wide NumPy generator (the position in
\* its stream); prev is the record of the last compute_kde call whose value the
\* caller kept.
kdeVars == <<np_random, prev>>

\* The analysis job (workers/analysis_worker.py):
\*   task, plan, slide_found, want_ripley   the submitted job: its task, the
\*       sizes of the batches its generator yields, whether its slide exists,
\*       parameters['compute_ripleys_k']
\*   pc              position of the running attempt, or where the job rests
\*   retries         self.request.retries of the queued or running message
\*   attempts, losses  attempts started, attempts ended by the loss of the worker
\*   outcome         how the last attempt ended
\*   status          analysis_jobs.status of the job's row
\*   writes          the status writes the current attempt has committed
\*   n_objects       rows of spatial_objects committed by the job, all attempts
\*   total_inserted, batch_count   locals of the attempt
\*   reported        total_cells_detected / regions_created of result_summary
\*   exc             the exception the attempt's except clause caught
\*   subs            outcomes of the sub-computations of run_spatial_statistics
workerVars ==
    <<task, plan, slide_found, want_ripley, pc, retries, attempts, losses,
      outcome, status, writes, n_objects, total_inserted, batch_count,
      reported, exc, subs>>

\* One use of get_db_connection (utils/db_connection.py):
\*   cm_pc     position in the context manager
\*   calls     the calls made on the connection, in order
\*   body      how the with-body ended
\*   pending   the exception in flight inside the context manager
\*   raised    the exception the with statement raised to its caller
\*   conns     connections opened so far
\*   commits   transactions committed so far
connVars == <<cm_pc, calls, body, pending, raised, conns, commits>>

\* One call of CellDetectionSimulator.generate_detections:
\*   gen_pc     position of the generator
\*   gen_cells  the cells generate_cells_gmm yields, by their confidence in tenths
\*   slide_id, batch_size, confidence_threshold   the arguments of the call
\*   gen_pos    cells consumed so far
\*   batch      the local list `batch`
\*   yielded    the batches yielded so far
batchVars ==
    <<gen_pc, gen_cells, slide_id, batch_size, confidence_threshold,
      gen_pos, batch, yielded>>

\* One call of SyntheticSlideGenerator.generate_cells_gmm:
\*   cc_pc       position in generate_cells_gmm / generate_cluster_centers
\*   width       self.config.width = self.config.height
\*   n_clusters, n_cells   the arguments of the call
\*   centers, c_attempts   the locals `centers` and `attempts`
\*   cells_per_cluster     the local cells_per_cluster
centerVars ==
    <<cc_pc, width, n_clusters, centers, c_attempts, n_cells, cells_per_cluster>>

vars == <<engineVars, kdeVars, workerVars, connVars, batchVars, centerVars>>

\* the variables outside each part of the model
NotEngine == <<workerVars, connVars, batchVars, centerVars>>
NotWorker == <<kdeVars, connVars, batchVars, centerVars>>
NotConn == <<engineVars, kdeVars, workerVars, batchVars, centerVars>>
NotBatch == <<engineVars, kdeVars, workerVars, connVars, centerVars>>
NotCenters == <<engineVars, kdeVars, workerVars, connVars, batchVars>>

(***************************************************************************)
(* Bounds of the model and the input sets the actions draw from.           *)
(***************************************************************************)
MaxN == 3
MaxCells == 30
MaxDraws == 2
MaxLosses == 1
MaxConns == 3
MaxStatements == 2
MaxGenerated == 4
MaxClusters == 2

Coord == {0, 1}
Points == Coord \X Coord
LabelSet == {"a", "b"}

Key(p) == p[1] * 2 + p[2]

\* Point sets of up to MaxN points.  No operation depends on the order of the
\* points, so one representative (non-decreasing) order per multiset is drawn.
PointSets ==
    {s \in UNION {[1..n -> Points] : n \in 0..MaxN} :
        \A i \in 1..(Len(s) - 1) : Key(s[i]) <= Key(s[i + 1])}

NoLabels == [present |-> FALSE, arr |-> <<>>]
SomeLabels(a) == [present |-> TRUE, arr |-> a]

\* Label arrays offered with a point set of n points: none, every array of n
\* labels (one alternating array for the point sets beyond MaxN + 1 points),
\* and arrays of n - 1 and of n + 1 labels (the surplus label either
\* one that a point carries or one that no point carries).
LabelArrays(n) ==
    {NoLabels}
    \cup (IF n <= MaxN + 1
          THEN {SomeLabels(a) : a \in [1..n -> LabelSet]}
          ELSE {SomeLabels([k \in 1..n |-> IF k % 2 = 0 THEN "a" ELSE "b"])})
    \cup {SomeLabels([k \in 1..m |-> "a"]) : m \in {k \in {n - 1, n + 1} : k >= 0}}
    \cup {SomeLabels([k \in 1..(n + 1) |-> IF k <= n THEN "a" ELSE "b"])}

RadiiChoices == {<<>>, <<1>>, <<0, 1, 2>>, <<2, 1>>}
AreaChoices == {0, 1, 4}
RadiusChoices == {0, 1, 2}
CellSizeChoices == {1, 2, 10}
MinDensityChoices == {0, 1, 20000}
GridSizeChoices == {1, 2, 10, 256, 80000}
NoBounds == [present |-> FALSE, rect |-> <<0, 0, 0, 0>>]
SomeBounds(r) == [present |-> TRUE, rect |-> r]
BoundsChoices ==
    {NoBounds} \cup
    {SomeBounds(r) : r \in {<<0, 0, 1, 1>>, <<-1, -1, 0, 0>>, <<1, 1, 3, 2>>,
                            <<0, 0, 10, 10>>, <<0, 0, 0, 1>>, <<0, 0, 2, 2>>}}
\* Point sets around the size compute_kde asks for: nine points, and ten
\* points that span the plane, lie on one line, or coincide.
Repeat(p, n) == [k \in 1..n |-> p]
KdePointSets ==
    {Repeat(<<0, 0>>, 3) \o Repeat(<<0, 1>>, 3) \o Repeat(<<1, 0>>, 3),
     Repeat(<<0, 0>>, 4) \o Repeat(<<0, 1>>, 3) \o Repeat(<<1, 0>>, 3),
     Repeat(<<0, 0>>, 5) \o Repeat(<<0, 1>>, 5),
     Repeat(<<1, 1>>, 10)}
DensityPointSets == PointSets \cup {<< <<5, 5>> >>} \cup KdePointSets
ResolutionChoices == {-1, 0, 2}
NoBandwidth == [present |-> FALSE, value |-> 0]
BandwidthChoices == {NoBandwidth} \cup {[present |-> TRUE, value |-> b] : b \in {0, 1}}
SigmaChoices == {0, 1}
NLevelsChoices == {0, 1, 2, 5}

\* Point sets whose bounding box spans several hotspot cells, and the four
\* points of (0,0)-(1,1).
SpreadPointSets ==
    {<< <<0, 0>>, <<0, 0>>, <<2, 2>> >>,
     << <<0, 0>>, <<2, 2>>, <<2, 2>> >>,
     << <<0, 0>>, <<1, 2>>, <<2, 1>> >>,
     << <<0, 0>>, <<3, 1>> >>,
     << <<0, 0>>, <<0, 1>>, <<1, 0>>, <<1, 1>> >>}
StatsPointSets == PointSets \cup SpreadPointSets

(***************************************************************************)
(* Outcomes of a call.                                                     *)
(***************************************************************************)
Ok(v, q) == [tag |-> "ok", err |-> "", queries |-> q, val |-> v]
Err(e, q) == [tag |-> "error", err |-> e, queries |-> q, val |-> <<>>]
Raise(e, q) == [tag |-> "raise", err |-> e, queries |-> q, val |-> <<>>]
NoResult == [tag |-> "none", err |-> "", queries |-> 0, val |-> <<>>]

(***************************************************************************)
(* Arithmetic helpers.                                                     *)
(***************************************************************************)
N == n_centroids

\* self.centroids[i - 1]
Pt(i) == centroids[((i - 1) % Len(centroids)) + 1]
Idx == 1..N

Frac(n, d) == [num |-> n, den |-> d]

\* int(np.ceil(a / b)) for b > 0
CeilDiv(a, b) == -((-a) \div b)

\* (a / b).astype(int) for b > 0: truncation toward zero
TruncDiv(a, b) == IF a >= 0 THEN a \div b ELSE -((-a) \div b)

\* np.clip(v, lo, hi) = minimum(maximum(v, lo), hi), also when lo > hi
Clip(v, lo, hi) ==
    LET m == IF v < lo THEN lo ELSE v
    IN IF m > hi THEN hi ELSE m

MinOf(S) == CHOOSE m \in S : \A x \in S : m <= x
MaxOf(S) == CHOOSE m \in S : \A x \in S : m >= x

RECURSIVE SumOver(_, _)
SumOver(f, S) ==
    IF S = {} THEN 0
    ELSE LET x == CHOOSE y \in S : TRUE
         IN f[x] + SumOver(f, S \ {x})

Dist2(p, q) == (p[1] - q[1]) * (p[1] - q[1]) + (p[2] - q[2]) * (p[2] - q[2])

(***************************************************************************)
(* SpatialStatisticsEngine (spatial_statistics.py).                        *)
(***************************************************************************)
\* scipy's KDTree.query pads a missing neighbour with an infinite distance.
Infinity == -1

\* KDTree.query(self.centroids, k=2)[0][i]: the two nearest indexed points of
\* point i (point i is itself indexed), as distances in ascending order.
QueryK2(i) ==
    LET d(j) == Dist2(centroids[i], centroids[j])
        d1 == MinOf({d(j) : j \in Idx})
        j1 == MinOf({j \in Idx : d(j) = d1})
        rest == Idx \ {j1}
        d2 == IF rest = {} THEN Infinity ELSE MinOf({d(j) : j \in rest})
    IN <<d1, d2>>

\* variant: column 0 of the query, the nearest indexed point
NNDistances_Col0 == [i \in Idx |-> QueryK2(i)[1]]

\* nn_distances = distances[:, 1]
NNDistances == [i \in Idx |-> QueryK2(i)[2]]

NNValue ==
    LET nn == NNDistances
        ds == {nn[i] : i \in Idx}
    IN [nn_distances |-> nn, min |-> MinOf(ds), max |-> MaxOf(ds)]

\* variant: the N < 2 test left out
ComputeNN_NoSizeCheck ==
    IF tree = "None" THEN Err("Insufficient data points", 0)
    ELSE Ok(NNValue, 1)

ComputeNearestNeighborDistribution ==
    IF tree = "None" \/ N < 2
    THEN Err("Insufficient data points", 0)
    ELSE Ok(NNValue, 1)

\* self.tree.query_pairs(r): the pairs (i, j), i < j, at distance <= r
QueryPairs(r) ==
    {ij \in Idx \X Idx :
        ij[1] < ij[2] /\ Dist2(centroids[ij[1]], centroids[ij[2]]) <= r * r}

\* count = len(pairs) * 2;  k_r = area * count / (n * (n - 1)) if n > 1 else 0
KValue(r, area) ==
    IF N > 1 THEN Frac(area * (Cardinality(QueryPairs(r)) * 2), N * (N - 1))
    ELSE Frac(0, 1)

\* variant: N < 2 answered with an error value, as nearest neighbour does
ComputeRipleysK_SizeCheck(radii, area) ==
    IF tree = "None" \/ N < 2 THEN Err("No spatial data", 0)
    ELSE IF area = 0 THEN Raise("ZeroDivisionError", 0)
    ELSE Ok([radii |-> radii,
             k_observed |-> [k \in 1..Len(radii) |-> KValue(radii[k], area)]],
            Len(radii))

ComputeRipleysK(radii, area) ==
    IF tree = "None" THEN Err("No spatial data", 0)
    ELSE IF area = 0 THEN Raise("ZeroDivisionError", 0)   \* density = n / area
    ELSE Ok([radii |-> radii,
             k_observed |-> [k \in 1..Len(radii) |-> KValue(radii[k], area)]],
            Len(radii))

\* self.tree.query_ball_tree(self.tree, radius)[i]: every indexed point within
\* radius of point i, point i included
QueryBallTree(i, radius) ==
    {j \in Idx : Dist2(centroids[i], centroids[j]) <= radius * radius}

\* variant: the i != j test left out
NeighborPairs_WithSelf(radius) ==
    {ij \in Idx \X Idx : ij[2] \in QueryBallTree(ij[1], radius)}

\* for i, neighbors in enumerate(indices): for j in neighbors: if i != j
NeighborPairs(radius) ==
    {ij \in Idx \X Idx : ij[2] \in QueryBallTree(ij[1], radius) /\ ij[1] # ij[2]}

\* cooccurrence[label_i][label_j], counted over the (i, j) of the loop
Cooccurrence(pairs, li, lj) ==
    Cardinality({ij \in pairs :
                    labels.arr[ij[1]] = li /\ labels.arr[ij[2]] = lj})

\* sum(cooccurrence[label_i].values()): every neighbour of a point of label_i
\* was counted under exactly one key
TotalNeighbors(pairs, li) ==
    Cardinality({ij \in pairs : labels.arr[ij[1]] = li})

\* np.unique(self.labels)
UniqueLabels(arr) == {arr[k] : k \in 1..Len(arr)}

ColocalizationValue(radius) ==
    LET U == UniqueLabels(labels.arr)
        pairs == NeighborPairs(radius)
        total == [li \in U |-> TotalNeighbors(pairs, li)]
    IN [radius |-> radius,
        colocalization_matrix |->
            [li \in U |->
                [lj \in U |->
                    IF total[li] > 0
                    THEN Frac(Cooccurrence(pairs, li, lj), total[li])
                    ELSE Frac(0, 1)]],
        label_counts |->
            [l \in {labels.arr[i] : i \in Idx} |->
                Cardinality({i \in Idx : labels.arr[i] = l})]]

\* variant: the labels test made after the neighbour query
ComputeColoc_LateCheck(radius) ==
    IF tree = "None" THEN Raise("AttributeError", 0)
    ELSE IF ~labels.present THEN Err("No labels provided", 1)
    ELSE IF Len(labels.arr) < N THEN Raise("IndexError", 1)
    ELSE Ok(ColocalizationValue(radius), 1)

ComputeLabelColocalization(radius) ==
    IF ~labels.present THEN Err("No labels provided", 0)
    ELSE IF tree = "None"
    THEN Raise("AttributeError", 0)        \* self.tree is None: N = 0
    ELSE IF Len(labels.arr) < N
    THEN Raise("IndexError", 1)            \* self.labels[i], i >= len(labels)
    ELSE Ok(ColocalizationValue(radius), 1)

\* The grid of compute_hotspot_detection over the bounding box of the points.
HotspotXMin == MinOf({centroids[i][1] : i \in Idx})
HotspotYMin == MinOf({centroids[i][2] : i \in Idx})
HotspotNX(cell_size) ==
    CeilDiv(MaxOf({centroids[i][1] : i \in Idx}) - HotspotXMin, cell_size)
HotspotNY(cell_size) ==
    CeilDiv(MaxOf({centroids[i][2] : i \in Idx}) - HotspotYMin, cell_size)

\* grid_x, grid_y after np.clip
HotspotGridX(i, cell_size) ==
    Clip(TruncDiv(centroids[i][1] - HotspotXMin, cell_size),
         0, HotspotNX(cell_size) - 1)
HotspotGridY(i, cell_size) ==
    Clip(TruncDiv(centroids[i][2] - HotspotYMin, cell_size),
         0, HotspotNY(cell_size) - 1)

\* An index numpy accepts on an axis of length n; a negative one counts from
\* the end.
ValidIndex(k, n) == -n <= k /\ k < n
WrapIndex(k, n) == IF k < 0 THEN k + n ELSE k

\* grid_counts = np.zeros((n_x, n_y)); np.add.at(grid_counts, (grid_x, grid_y), 1)
HotspotCounts(cell_size) ==
    LET nx == HotspotNX(cell_size)
        ny == HotspotNY(cell_size)
        gx == [i \in Idx |-> WrapIndex(HotspotGridX(i, cell_size), nx)]
        gy == [i \in Idx |-> WrapIndex(HotspotGridY(i, cell_size), ny)]
    IN [c \in (0..(nx - 1)) \X (0..(ny - 1)) |->
            Cardinality({i \in Idx : gx[i] = c[1] /\ gy[i] = c[2]})]

\* grid_density = grid_counts / cell_area * 10000
DensityScale == 10000
CellDensity(count, cell_size) == Frac(count * DensityScale, cell_size * cell_size)

FracGeq(a, b) == a.num * b.den >= b.num * a.den

\* variant: a cell exactly at the threshold left out
IsHotspot_Strict(count, cell_size, min_density) ==
    ~FracGeq(Frac(min_density, 1), CellDensity(count, cell_size))

\* if grid_density[ix, iy] >= min_density
IsHotspot(count, cell_size, min_density) ==
    FracGeq(CellDensity(count, cell_size), Frac(min_density, 1))

\* variant: the list left in the order of the scan
SortByDensity_ScanOrder(hs) == hs

\* hotspots.sort(key=density, reverse=True) is stable: an entry goes behind
\* every entry of at least its density.
RECURSIVE SortByDensity(_)
SortByDensity(hs) ==
    IF Len(hs) = 0 THEN <<>>
    ELSE LET init == SortByDensity(SubSeq(hs, 1, Len(hs) - 1))
             h == hs[Len(hs)]
             keep == {k \in 1..Len(init) : FracGeq(init[k].density, h.density)}
             at == IF keep = {} THEN 0 ELSE MaxOf(keep)
         IN SubSeq(init, 1, at) \o <<h>> \o SubSeq(init, at + 1, Len(init))

HotspotValue(cell_size, min_density) ==
    LET nx == HotspotNX(cell_size)
        ny == HotspotNY(cell_size)
        counts == HotspotCounts(cell_size)
        cells == [k \in 1..(nx * ny) |-> <<(k - 1) \div ny, (k - 1) % ny>>]
        entry(c) ==
            [grid_x |-> c[1], grid_y |-> c[2],
             center_x |-> Frac(2 * HotspotXMin + (2 * c[1] + 1) * cell_size, 2),
             center_y |-> Frac(2 * HotspotYMin + (2 * c[2] + 1) * cell_size, 2),
             count |-> counts[c],
             density |-> CellDensity(counts[c], cell_size)]
        hot(c) == IsHotspot(counts[c], cell_size, min_density)
        found == SelectSeq(cells, hot)
        hotspots == SortByDensity([k \in 1..Len(found) |-> entry(found[k])])
        nonempty == {c \in DOMAIN counts : counts[c] > 0}
    IN [hotspots |-> hotspots,
        grid_size |-> cell_size,
        total_cells |-> N,
        n_hotspots |-> Len(hotspots),
        max_density |->
            CellDensity(MaxOf({counts[c] : c \in DOMAIN counts}), cell_size),
        mean_density |->
            Frac(SumOver(counts, nonempty) * DensityScale,
                 cell_size * cell_size * Cardinality(nonempty))]

ComputeHotspotDetection(cell_size, min_density) ==
    IF N = 0 THEN Ok([hotspots |-> <<>>], 0)
    ELSE IF \E i \in Idx :
              \/ ~ValidIndex(HotspotGridX(i, cell_size), HotspotNX(cell_size))
              \/ ~ValidIndex(HotspotGridY(i, cell_size), HotspotNY(cell_size))
    THEN Raise("IndexError", 0)            \* np.add.at on an axis of length 0
    ELSE Ok(HotspotValue(cell_size, min_density), 0)

PerMillion == 1000000

ComputeSummaryStatistics(area) ==
    IF N = 0 THEN Err("No data points", 0)
    ELSE IF area = 0 THEN Raise("ZeroDivisionError", 0)   \* n / area * 1e6
    ELSE LET nn == ComputeNearestNeighborDistribution
             xs == {centroids[i][1] : i \in Idx}
             ys == {centroids[i][2] : i \in Idx}
         IN Ok([total_count |-> N,
                density |-> Frac(N * PerMillion, area),
                centroid |->
                    [x |-> Frac(SumOver([i \in Idx |-> centroids[i][1]], Idx), N),
                     y |-> Frac(SumOver([i \in Idx |-> centroids[i][2]], Idx), N)],
                extent |-> [x_min |-> MinOf(xs), x_max |-> MaxOf(xs),
                            y_min |-> MinOf(ys), y_max |-> MaxOf(ys)],
                nearest_neighbor |-> nn,
                label_distribution |->
                    IF labels.present
                    THEN [l \in UniqueLabels(labels.arr) |->
                            Cardinality({k \in 1..Len(labels.arr) :
                                            labels.arr[k] = l})]
                    ELSE <<>>],
               nn.queries)

(***************************************************************************)
(* DensityEstimator (density_estimation.py).                               *)
(***************************************************************************)
Padding == 100
DefaultBounds == <<0, 0, 100000, 80000>>

\* DensityEstimator.__init__: self.bounds
InitBounds(c, b) ==
    IF ~b.present /\ Len(c) > 0
    THEN <<MinOf({c[i][1] : i \in 1..Len(c)}) - Padding,
           MinOf({c[i][2] : i \in 1..Len(c)}) - Padding,
           MaxOf({c[i][1] : i \in 1..Len(c)}) + Padding,
           MaxOf({c[i][2] : i \in 1..Len(c)}) + Padding>>
    ELSE IF b.present THEN b.rect ELSE DefaultBounds

GridNX(grid_size) == CeilDiv(bounds[3] - bounds[1], grid_size)
GridNY(grid_size) == CeilDiv(bounds[4] - bounds[2], grid_size)

\* variant: np.clip left out
GridX_NoClip(i, grid_size) == TruncDiv(centroids[i][1] - bounds[1], grid_size)

\* grid_x = np.clip(((x - x_min) / grid_size).astype(int), 0, n_x - 1)
GridX(i, grid_size) ==
    Clip(TruncDiv(centroids[i][1] - bounds[1], grid_size),
         0, GridNX(grid_size) - 1)

\* grid_y = np.clip(((y - y_min) / grid_size).astype(int), 0, n_y - 1)
GridY(i, grid_size) ==
    Clip(TruncDiv(centroids[i][2] - bounds[2], grid_size),
         0, GridNY(grid_size) - 1)

\* variant: the grid laid out as (n_x, n_y)
GridCells_Transposed(grid_size) ==
    (0..(GridNX(grid_size) - 1)) \X (0..(GridNY(grid_size) - 1))

\* the cells (row, column) of np.zeros((n_y, n_x))
GridCells(grid_size) ==
    (0..(GridNY(grid_size) - 1)) \X (0..(GridNX(grid_size) - 1))

\* np.zeros((n_y, n_x)); np.add.at(grid, (grid_y[sel], grid_x[sel]), 1)
CountGrid(grid_size, sel) ==
    LET gy == [i \in sel |-> WrapIndex(GridY(i, grid_size), GridNY(grid_size))]
        gx == [i \in sel |-> WrapIndex(GridX(i, grid_size), GridNX(grid_size))]
    IN [rc \in GridCells(grid_size) |->
            Cardinality({i \in sel : gy[i] = rc[1] /\ gx[i] = rc[2]})]

GridIndicesValid(grid_size) ==
    \A i \in Idx :
        /\ ValidIndex(GridX(i, grid_size), GridNX(grid_size))
        /\ ValidIndex(GridY(i, grid_size), GridNY(grid_size))

\* variant: the mask left out, every label's grid counts every point
ByLabel_NoMask(grid_size, lbls) ==
    [l \in UniqueLabels(lbls.arr) |-> CountGrid(grid_size, Idx)]

\* result['by_label']: one grid per np.unique(labels), mask = labels == label
ByLabel(grid_size, lbls) ==
    [l \in UniqueLabels(lbls.arr) |->
        CountGrid(grid_size, {i \in Idx : lbls.arr[i] = l})]

GridValue(grid_size, lbls) ==
    LET grid == CountGrid(grid_size, Idx)
    IN [grid |-> grid,
        grid_size |-> grid_size,
        bounds |-> bounds,
        shape |-> <<GridNY(grid_size), GridNX(grid_size)>>,
        max_count |-> MaxOf({grid[rc] : rc \in DOMAIN grid}),
        total_count |-> SumOver(grid, DOMAIN grid),
        by_label |-> IF lbls.present THEN ByLabel(grid_size, lbls) ELSE <<>>]

ComputeGridDensity(grid_size, lbls) ==
    IF N = 0
    THEN Ok([grid |-> CountGrid(grid_size, {}),
             grid_size |-> grid_size,
             bounds |-> bounds], 0)
    ELSE IF ~GridIndicesValid(grid_size)
    THEN Raise("IndexError", 0)            \* np.add.at on an axis of length 0
    ELSE IF lbls.present /\ Len(lbls.arr) > 0 /\ Len(lbls.arr) # N
    THEN Raise("IndexError", 0)            \* grid_y[mask], len(mask) != N
    ELSE Ok(GridValue(grid_size, lbls), 0)

\* get_density_at_point: count / (pi * radius^2) * 1e6.  The value is carried
\* as the count and the radius; a zero radius divides a numpy integer by 0.0,
\* which numpy answers with inf (count > 0) or nan (count = 0).
GetDensityAtPoint(x, y, radius) ==
    IF N = 0 THEN Ok([kind |-> "zero", count |-> 0, radius |-> radius], 0)
    ELSE LET count == Cardinality({i \in Idx :
                          Dist2(centroids[i], <<x, y>>) <= radius * radius})
         IN IF radius = 0
            THEN Ok([kind |-> IF count > 0 THEN "inf" ELSE "nan",
                     count |-> count, radius |-> radius], 0)
            ELSE Ok([kind |-> "finite", count |-> count, radius |-> radius], 0)

\* scipy.ndimage.gaussian_filter(grid, sigma), mode 'reflect', truncate 4.0.
\* The kernel of an axis reaches int(4 * sigma + 0.5) cells to either side;
\* its weights exp(-d^2 / (2 sigma^2)) are carried in hundredths, rounded up.
\* scipy divides them by their sum; that factor is the same for every cell and
\* cancels in the rescaling below, so it is left out.
KernelRadius(sigma) == (8 * sigma + 1) \div 2
GaussWeights(sigma) == IF sigma = 1 THEN <<100, 61, 14, 2, 1>> ELSE <<100>>
Weight(sigma, d) == GaussWeights(sigma)[(IF d < 0 THEN -d ELSE d) + 1]

\* mode 'reflect' (d c b a | a b c d | d c b a): index k on an axis of length n
Reflect(k, n) ==
    LET m == k % (2 * n)
    IN IF m < n THEN m ELSE 2 * n - 1 - m

\* An array held as computed values: the function f tabulated once, so that
\* reading an element does not evaluate its defining expression again.
Array(f) == f @@ f

\* correlate1d along axis 0 (rows), then along axis 1 (columns)
FilterRows(g, ny, sigma) ==
    LET R == KernelRadius(sigma)
        a == Array(g)
    IN Array([rc \in DOMAIN a |->
                SumOver([d \in (-R)..R |->
                            Weight(sigma, d) * a[<<Reflect(rc[1] + d, ny), rc[2]>>]],
                        (-R)..R)])
FilterCols(g, nx, sigma) ==
    LET R == KernelRadius(sigma)
        a == Array(g)
    IN Array([rc \in DOMAIN a |->
                SumOver([d \in (-R)..R |->
                            Weight(sigma, d) * a[<<rc[1], Reflect(rc[2] + d, nx)>>]],
                        (-R)..R)])

\* gaussian_filter skips every axis whose sigma is not above 1e-15: with
\* sigma = 0 the output is a copy of the input
GaussianFilter(g, ny, nx, sigma) ==
    IF sigma > 0 THEN FilterCols(FilterRows(g, ny, sigma), nx, sigma) ELSE g

\* variant: no rescaling
Normalize_None(sm) == [rc \in DOMAIN sm |-> Frac(sm[rc], 1)]

\* variant: rescaled by the sum of the values
Normalize_BySum(sm) ==
    LET t == SumOver(sm, DOMAIN sm)
    IN [rc \in DOMAIN sm |-> IF t > 0 THEN Frac(sm[rc], t) ELSE Frac(sm[rc], 1)]

\* if smoothed.max() > 0: smoothed = smoothed / smoothed.max()
Normalize(sm) ==
    LET a == Array(sm)
        mx == MaxOf({a[rc] : rc \in DOMAIN a})
    IN Array([rc \in DOMAIN a |->
                IF mx > 0 THEN Frac(a[rc], mx) ELSE Frac(a[rc], 1)])

\* compute_smoothed_density: the grid result with smoothed_grid and sigma added.
\* smoothed.max() of a grid without cells raises ValueError.
ComputeSmoothedDensity(grid_size, sigma) ==
    LET g == ComputeGridDensity(grid_size, NoLabels)
    IN IF g.tag # "ok" THEN g
       ELSE IF DOMAIN g.val.grid = {} THEN Raise("ValueError", 0)
       ELSE Ok(("smoothed_grid" :>
                    Normalize(GaussianFilter(g.val.grid, GridNY(grid_size),
                                             GridNX(grid_size), sigma)))
               @@ ("sigma" :> sigma) @@ g.val, 0)

\* non_zero = smoothed[smoothed > 0.01]
AboveCutoff(v) == v.num * 100 > v.den

\* The values of the cells S of f in ascending order.
SortedValues(f, S) ==
    [j \in 1..Cardinality(S) |->
        CHOOSE v \in {f[c] : c \in S} :
            /\ Cardinality({c \in S : f[c] < v}) < j
            /\ j <= Cardinality({c \in S : f[c] <= v})]

\* variant: the percentiles taken from 95 down to 20
PercentileNum_Descending(k, n) ==
    IF n = 1 THEN 95 ELSE 95 * (n - 1) - 75 * (k - 1)

\* percentiles = np.linspace(20, 95, n_levels): the k-th of n is
\* PercentileNum(k, n) / PercentileDen(n)
PercentileNum(k, n) == IF n = 1 THEN 20 ELSE 20 * (n - 1) + 75 * (k - 1)
PercentileDen(n) == IF n = 1 THEN 1 ELSE n - 1

\* np.percentile(a, p) by linear interpolation between the two order
\* statistics around (len(a) - 1) * p / 100; a holds the numerators of values
\* of denominator den.
Percentile(a, den, k, n) ==
    LET D == 100 * PercentileDen(n)
        H == (Len(a) - 1) * PercentileNum(k, n)
        lo == H \div D
        hi == IF lo + 1 < Len(a) THEN lo + 1 ELSE Len(a) - 1
    IN Frac(a[lo + 1] * D + (H % D) * (a[hi + 1] - a[lo + 1]), D * den)

\* compute_contours: the smoothed result with contour_levels (and percentiles)
ComputeContours(grid_size, n_levels, sigma) ==
    LET r == ComputeSmoothedDensity(grid_size, sigma)
    IN IF r.tag # "ok" THEN r
       ELSE LET sm == r.val.smoothed_grid
                cells == {rc \in DOMAIN sm : AboveCutoff(sm[rc])}
                den == MaxOf({sm[rc].den : rc \in DOMAIN sm})
                a == SortedValues([rc \in cells |-> sm[rc].num], cells)
            IN IF cells = {}
               THEN Ok(("contour_levels" :> <<>>) @@ r.val, 0)
               ELSE Ok(("contour_levels" :>
                            [k \in 1..n_levels |-> Percentile(a, den, k, n_levels)])
                       @@ ("percentiles" :>
                            [k \in 1..n_levels |->
                                Frac(PercentileNum(k, n_levels),
                                     PercentileDen(n_levels))])
                       @@ r.val, 0)

\* compute_kde.  The density surface is real-valued and is not carried: a
\* returned surface is recorded by the size of the fitted sample and by whether
\* its values are finite.  The work done before a call ends without a surface
\* is recorded in val: mesh (the evaluation mesh was built) and kernel (the
\* kernel was fitted).
MinKdePoints == 10
SubsampleCap == 50000

KdeProgress(r, mesh, kernel) == [r EXCEPT !.val = [mesh |-> mesh, kernel |-> kernel]]

\* the sample lies in a line or a point: its covariance matrix is singular
\* (every point lies on the line through the first point and some point that
\* differs from it, or no point differs from the first)
\* (the array has the points of its tile, so the tile decides)
Collinear ==
    LET T == DOMAIN centroids
    IN \/ \A j \in T : centroids[j] = centroids[1]
       \/ LET j == CHOOSE j \in T : centroids[j] # centroids[1]
          IN \A k \in T :
                (centroids[j][1] - centroids[1][1]) * (centroids[k][2] - centroids[1][2])
                  = (centroids[k][1] - centroids[1][1]) * (centroids[j][2] - centroids[1][2])

\* sample = self.centroids[indices].T for N > 50000, else self.centroids.T
KdeSampleSize == IF N > SubsampleCap THEN SubsampleCap ELSE N

\* np.random.choice(n, size, replace=False) draws from the process-wide
\* generator: the indices it returns are a function of the generator's state,
\* and the draw advances the state.  The generator's arithmetic is not
\* modelled; the draw at stream position `state` takes the `size` indices that
\* follow index `state` cyclically, so that draws at successive positions
\* differ.  The drawn set is carried by the indices it leaves out.
ChoiceOmitted(n, size, state) == {(state + size + j) % n : j \in 0..(n - size - 1)}

\* the indices of self.centroids (0-based) that are not in the fitted sample
KdeOmitted ==
    IF N > SubsampleCap THEN ChoiceOmitted(N, SubsampleCap, np_random) ELSE {}

KdeSurface(resolution, finite) ==
    Ok([density |-> [sample_size |-> KdeSampleSize, omitted |-> KdeOmitted,
                     finite |-> finite],
        resolution |-> resolution,
        bounds |-> bounds], 0)

\* The outcomes of the try block (lines 114-133) for N >= 10.  A singular
\* covariance makes gaussian_kde raise LinAlgError.  A zero bandwidth scales
\* the covariance to zero: scipy releases that factorise the covariance raise
\* LinAlgError, older ones divide by zero and evaluate to non-finite values.
\* With resolution = 0 the mesh has no point and density.min() raises
\* ValueError.  Every exception is caught and returned as an error value.
KdeTry(resolution, bandwidth) ==
    IF Collinear
    THEN {KdeProgress(Err("KDE computation failed", 0), TRUE, FALSE)}
    ELSE IF bandwidth.present /\ bandwidth.value = 0
    THEN {KdeProgress(Err("KDE computation failed", 0), TRUE, FALSE),
          IF resolution = 0
          THEN KdeProgress(Err("KDE computation failed", 0), TRUE, TRUE)
          ELSE KdeSurface(resolution, FALSE)}
    ELSE IF resolution = 0
    THEN {KdeProgress(Err("KDE computation failed", 0), TRUE, TRUE)}
    ELSE {KdeSurface(resolution, TRUE)}

\* variant: the N < 10 test left out
ComputeKde_NoSizeCheck(resolution, bandwidth) ==
    IF resolution < 0
    THEN {KdeProgress(Raise("ValueError", 0), FALSE, FALSE)}
    ELSE KdeTry(resolution, bandwidth)

\* compute_kde(resolution, bandwidth): the set of its possible outcomes
ComputeKde(resolution, bandwidth) ==
    IF N < MinKdePoints
    THEN {KdeProgress(Err("Insufficient data for KDE", 0), FALSE, FALSE)}
    ELSE IF resolution < 0                 \* np.linspace(x_min, x_max, -1)
    THEN {KdeProgress(Raise("ValueError", 0), FALSE, FALSE)}
    ELSE KdeTry(resolution, bandwidth)

(***************************************************************************)
(* The state machine: one object is constructed, then its operations are   *)
(* called in any order with any of the offered parameters.                 *)
(***************************************************************************)
NoCall == [op |-> "none", args |-> [none |-> 0], result |-> NoResult]

SubNames == {"nn", "hotspots", "coloc", "ripleys_k", "density"}
NoSubs == [s \in SubNames |-> [tag |-> "none", err |-> ""]]

InitWorker ==
    /\ task = "none"
    /\ plan = <<>>
    /\ slide_found = FALSE
    /\ want_ripley = FALSE
    /\ pc = "none"
    /\ retries = 0
    /\ attempts = 0
    /\ losses = 0
    /\ outcome = "none"
    /\ status = "none"
    /\ writes = <<>>
    /\ n_objects = 0
    /\ total_inserted = 0
    /\ batch_count = 0
    /\ reported = -1
    /\ exc = "none"
    /\ subs = NoSubs

InitConn ==
    /\ cm_pc = "none"
    /\ calls = <<>>
    /\ body = "none"
    /\ pending = "none"
    /\ raised = "none"
    /\ conns = 0
    /\ commits = 0

InitBatch ==
    /\ gen_pc = "none"
    /\ gen_cells = <<>>
    /\ slide_id = "none"
    /\ batch_size = 0
    /\ confidence_threshold = 0
    /\ gen_pos = 0
    /\ batch = <<>>
    /\ yielded = <<>>

InitCenters ==
    /\ cc_pc = "none"
    /\ width = 0
    /\ n_clusters = 0
    /\ centers = <<>>
    /\ c_attempts = 0
    /\ n_cells = 0
    /\ cells_per_cluster = <<>>

Init ==
    /\ obj = "none"
    /\ centroids = <<>>
    /\ n_centroids = 0
    /\ labels = NoLabels
    /\ tree = "None"
    /\ bounds = <<0, 0, 0, 0>>
    /\ bounds_param = NoBounds
    /\ op = "none"
    /\ args = [none |-> 0]
    /\ result = NoResult
    /\ np_random = 0
    /\ prev = NoCall
    /\ InitWorker
    /\ InitConn
    /\ InitBatch
    /\ InitCenters

\* SpatialStatisticsEngine.__init__(centroids, labels)
NewSpatialStatisticsEngine ==
    /\ obj = "none"
    /\ \E c \in StatsPointSets : \E l \in LabelArrays(Len(c)) :
          /\ centroids' = c
          /\ n_centroids' = Len(c)
          /\ labels' = l
          /\ tree' = IF Len(c) > 0 THEN "KDTree" ELSE "None"
    /\ obj' = "stats"
    /\ op' = "init"
    /\ UNCHANGED <<bounds, bounds_param, args, result>>
    /\ UNCHANGED <<kdeVars, NotEngine>>

\* DensityEstimator.__init__(centroids, bounds)
NewDensityEstimator ==
    /\ obj = "none"
    /\ \E c \in DensityPointSets : \E b \in BoundsChoices :
          /\ centroids' = c
          /\ n_centroids' = Len(c)
          /\ bounds_param' = b
          /\ bounds' = InitBounds(c, b)
    /\ obj' = "density"
    /\ op' = "init"
    /\ UNCHANGED <<labels, tree, args, result>>
    /\ UNCHANGED <<kdeVars, NotEngine>>

Frame ==
    UNCHANGED <<obj, centroids, n_centroids, labels, tree, bounds, bounds_param>>

\* a call that touches nothing outside its instance
Quiet == Frame /\ UNCHANGED <<kdeVars, NotEngine>>

Ready(kind) == obj = kind /\ op = "init"

CallNearestNeighbor ==
    /\ Ready("stats")
    /\ op' = "nearest_neighbor"
    /\ args' = [none |-> 0]
    /\ result' = ComputeNearestNeighborDistribution
    /\ Quiet

CallRipleysK ==
    /\ Ready("stats")
    /\ \E radii \in RadiiChoices : \E area \in AreaChoices :
          /\ args' = [radii |-> radii, area |-> area]
          /\ result' = ComputeRipleysK(radii, area)
    /\ op' = "ripleys_k"
    /\ Quiet

CallColocalization ==
    /\ Ready("stats")
    /\ \E radius \in RadiusChoices :
          /\ args' = [radius |-> radius]
          /\ result' = ComputeLabelColocalization(radius)
    /\ op' = "colocalization"
    /\ Quiet

CallHotspotDetection ==
    /\ Ready("stats")
    /\ \E cell_size \in CellSizeChoices : \E min_density \in MinDensityChoices :
          /\ args' = [cell_size |-> cell_size, min_density |-> min_density]
          /\ result' = ComputeHotspotDetection(cell_size, min_density)
    /\ op' = "hotspot"
    /\ Quiet

CallSummaryStatistics ==
    /\ Ready("stats")
    /\ \E area \in AreaChoices :
          /\ args' = [area |-> area]
          /\ result' = ComputeSummaryStatistics(area)
    /\ op' = "summary"
    /\ Quiet

\* Grids of more than MaxCells cells are left out of the model.
CallGridDensity ==
    /\ Ready("density")
    /\ \E grid_size \in GridSizeChoices : \E lbls \in LabelArrays(N) :
          /\ GridNX(grid_size) <= MaxCells
          /\ GridNY(grid_size) <= MaxCells
          /\ GridNX(grid_size) * GridNY(grid_size) <= MaxCells
          /\ args' = [grid_size |-> grid_size, labels |-> lbls]
          /\ result' = ComputeGridDensity(grid_size, lbls)
    /\ op' = "grid_density"
    /\ Quiet

CallDensityAtPoint ==
    /\ Ready("density")
    /\ \E x \in Coord : \E y \in Coord : \E radius \in RadiusChoices :
          /\ args' = [x |-> x, y |-> y, radius |-> radius]
          /\ result' = GetDensityAtPoint(x, y, radius)
    /\ op' = "density_at_point"
    /\ Quiet

CallSmoothedDensity ==
    /\ Ready("density")
    /\ \E grid_size \in GridSizeChoices : \E sigma \in SigmaChoices :
          /\ GridNX(grid_size) <= MaxCells
          /\ GridNY(grid_size) <= MaxCells
          /\ GridNX(grid_size) * GridNY(grid_size) <= MaxCells
          /\ args' = [grid_size |-> grid_size, sigma |-> sigma]
          /\ result' = ComputeSmoothedDensity(grid_size, sigma)
    /\ op' = "smoothed_density"
    /\ Quiet

CallContours ==
    /\ Ready("density")
    /\ \E grid_size \in GridSizeChoices : \E n_levels \in NLevelsChoices :
       \E sigma \in SigmaChoices :
          /\ GridNX(grid_size) <= MaxCells
          /\ GridNY(grid_size) <= MaxCells
          /\ GridNX(grid_size) * GridNY(grid_size) <= MaxCells
          /\ args' = [grid_size |-> grid_size, n_levels |-> n_levels,
                      sigma |-> sigma]
          /\ result' = ComputeContours(grid_size, n_levels, sigma)
    /\ op' = "contours"
    /\ Quiet

\* compute_kde draws its subsample when it reaches line 118 with more than
\* 50,000 points: the draw advances the process-wide generator.
KdeDraws(resolution) ==
    N >= MinKdePoints /\ resolution >= 0 /\ N > SubsampleCap

CallKde ==
    /\ Ready("density")
    /\ \E resolution \in ResolutionChoices : \E bandwidth \in BandwidthChoices :
          /\ KdeDraws(resolution) => np_random < MaxDraws
          /\ args' = [resolution |-> resolution, bandwidth |-> bandwidth]
          /\ result' \in ComputeKde(resolution, bandwidth)
          /\ np_random' = IF KdeDraws(resolution) THEN np_random + 1 ELSE np_random
    /\ op' = "kde"
    /\ Frame
    /\ UNCHANGED <<prev, NotEngine>>

\* The caller takes the returned value (nn_stats = ..., hotspots = ...); the
\* object is ready for its next call.
TakeResult ==
    /\ obj # "none"
    /\ op # "init"
    /\ op' = "init"
    /\ args' = [none |-> 0]
    /\ result' = NoResult
    /\ Quiet

Next ==
    \/ NewSpatialStatisticsEngine
    \/ NewDensityEstimator
    \/ CallNearestNeighbor
    \/ CallRipleysK
    \/ CallColocalization
    \/ CallHotspotDetection
    \/ CallSummaryStatistics
    \/ CallGridDensity
    \/ CallDensityAtPoint
    \/ CallSmoothedDensity
    \/ CallContours
    \/ CallKde
    \/ TakeResult

Spec == Init /\ [][Next]_vars

(***************************************************************************)
(* Kernel density estimation of large point sets.  The estimator is built  *)
(* from a point set of 9 or 10 points or of 50,001 points; compute_kde      *)
(* is called repeatedly, and other code of the process draws from the same *)
(* process-wide generator between the calls.                               *)
(***************************************************************************)
\* the lengths of the arrays built from a tile
KdeLengths(c) == {Len(c), SubsampleCap + 1}

KdeBoundsChoices == {NoBounds, SomeBounds(<<0, 0, 1, 1>>)}

\* DensityEstimator.__init__(centroids, bounds)
NewKdeEstimator ==
    /\ obj = "none"
    /\ \E c \in KdePointSets : \E n \in KdeLengths(c) : \E b \in KdeBoundsChoices :
          /\ centroids' = c
          /\ n_centroids' = n
          /\ bounds_param' = b
          /\ bounds' = InitBounds(c, b)
    /\ obj' = "density"
    /\ op' = "init"
    /\ UNCHANGED <<labels, tree, args, result>>
    /\ UNCHANGED <<kdeVars, NotEngine>>

\* The caller keeps the value compute_kde returned; the estimator is ready for
\* its next call.
KeepKdeResult ==
    /\ obj = "density"
    /\ op = "kde"
    /\ prev' = [op |-> op, args |-> args, result |-> result]
    /\ op' = "init"
    /\ args' = [none |-> 0]
    /\ result' = NoResult
    /\ Frame
    /\ UNCHANGED <<np_random, NotEngine>>

\* np.random.randint / np.random.choice called by other code of the process
\* (generate_multi_slide_dataset) between two calls of compute_kde
GlobalDraw ==
    /\ op \in {"none", "init"}
    /\ np_random < MaxDraws
    /\ np_random' = np_random + 1
    /\ UNCHANGED <<engineVars, prev, NotEngine>>

NextKde ==
    \/ NewKdeEstimator
    \/ CallKde
    \/ KeepKdeResult
    \/ GlobalDraw

SpecKde == Init /\ [][NextKde]_vars

(***************************************************************************)
(* The analysis jobs (workers/analysis_worker.py, celery_app.py).  One job *)
(* is submitted; the broker delivers its message to a worker, which runs   *)
(* an attempt of the task.  An attempt is a sequence of steps, one per     *)
(* database transaction (each opened by get_db_connection and committed    *)
(* when its with-body ends) or computation.  A database step either        *)
(* commits or raises (psycopg2.connect, execute or commit fails) and then  *)
(* leaves the tables as they were.  The worker process can be lost at any  *)
(* step: with task_acks_late and task_reject_on_worker_lost the message is *)
(* delivered again, with the same self.request.retries.                    *)
(***************************************************************************)
MaxRetries == 3

TaskNames == {"cell_detection", "tissue_segmentation", "spatial_statistics"}
InsertTasks == {"cell_detection", "tissue_segmentation"}

\* sizes of the batches the attempt inserts: the batches generate_detections
\* yields, or the one list of regions of run_tissue_segmentation
BatchPlans(t) ==
    IF t = "cell_detection" THEN {<<>>, <<2>>, <<2, 1>>}
    ELSE IF t = "tissue_segmentation" THEN {<<>>, <<2>>}
    ELSE {<<>>}

\* the rows of spatial_objects that run_spatial_statistics reads
SlideRowSets ==
    {<<>>,
     << <<0, 0>> >>,
     << <<0, 0>>, <<0, 1>> >>,
     << <<0, 0>>, <<1, 1>> >>,
     << <<0, 0>>, <<1, 1>>, <<1, 1>> >>}

\* width_pixels, height_pixels of the slide; the defaults of parameters.get
JobSlide == <<1000, 1000>>
JobHotspotGridSize == 500
JobMinHotspotDensity == 5
JobColocalizationRadius == 100
JobDensityGridSize == 512
\* np.linspace(10, 500, 20): its first and last radius
JobRadii == <<10, 500>>

Running ==
    {"begin", "lookup", "work", "compute", "complete", "return", "except", "retry"}

JobFrame == UNCHANGED <<task, plan, slide_found, want_ripley>>

\* the client inserts the job's row and sends the task message
SubmitJob ==
    /\ pc = "none"
    /\ \E t \in TaskNames : \E pl \in BatchPlans(t) : \E f \in BOOLEAN :
       \E r \in (IF t = "spatial_statistics" THEN BOOLEAN ELSE {FALSE}) :
          /\ task' = t
          /\ plan' = pl
          /\ slide_found' = f
          /\ want_ripley' = r
    /\ status' = "PENDING"
    /\ pc' = "queued"
    /\ UNCHANGED <<retries, attempts, losses, outcome, writes, n_objects,
                   total_inserted, batch_count, reported, exc, subs>>
    /\ UNCHANGED <<engineVars, NotWorker>>

\* a worker takes the message and enters the task body
Deliver ==
    /\ pc = "queued"
    /\ pc' = "begin"
    /\ attempts' = attempts + 1
    /\ outcome' = "none"
    /\ writes' = <<>>
    /\ total_inserted' = 0
    /\ batch_count' = 0
    /\ exc' = "none"
    /\ subs' = NoSubs
    /\ obj' = "none"
    /\ centroids' = <<>>
    /\ n_centroids' = 0
    /\ labels' = NoLabels
    /\ tree' = "None"
    /\ bounds' = <<0, 0, 0, 0>>
    /\ bounds_param' = NoBounds
    /\ JobFrame
    /\ UNCHANGED <<retries, losses, status, n_objects, reported>>
    /\ UNCHANGED <<op, args, result, NotWorker>>

\* the except clause catches e
Caught(e) == exc' = e /\ pc' = "except"

\* update_job_status(job_id, s): the UPDATE is committed
StatusWritten(s) == status' = s /\ writes' = Append(writes, s)

\* update_job_status(job_id, 'RUNNING')
WriteRunning ==
    /\ pc = "begin"
    /\ \/ StatusWritten("RUNNING") /\ pc' = "lookup" /\ UNCHANGED exc
       \/ Caught("OperationalError") /\ UNCHANGED <<status, writes>>
    /\ JobFrame
    /\ UNCHANGED <<retries, attempts, losses, outcome, n_objects,
                   total_inserted, batch_count, reported, subs>>
    /\ UNCHANGED <<engineVars, NotWorker>>

\* slide_info = get_slide_info(slide_id); if not slide_info: raise ValueError
GetSlideInfo ==
    /\ pc = "lookup"
    /\ \/ slide_found /\ pc' = "work" /\ UNCHANGED exc
       \/ ~slide_found /\ Caught("ValueError")
       \/ Caught("OperationalError")
    /\ JobFrame
    /\ UNCHANGED <<retries, attempts, losses, outcome, status, writes, n_objects,
                   total_inserted, batch_count, reported, subs>>
    /\ UNCHANGED <<engineVars, NotWorker>>

\* total_inserted += loader.bulk_insert_objects(batch, slide_id): the batch is
\* copied and committed in a connection of its own
InsertBatch ==
    /\ pc = "work"
    /\ task \in InsertTasks
    /\ batch_count < Len(plan)
    /\ \/ /\ n_objects' = n_objects + plan[batch_count + 1]
          /\ total_inserted' = total_inserted + plan[batch_count + 1]
          /\ batch_count' = batch_count + 1
          /\ UNCHANGED <<pc, exc>>
       \/ /\ Caught("OperationalError")
          /\ UNCHANGED <<n_objects, total_inserted, batch_count>>
    /\ JobFrame
    /\ UNCHANGED <<retries, attempts, losses, outcome, status, writes,
                   reported, subs>>
    /\ UNCHANGED <<engineVars, NotWorker>>

\* summary = loader.get_slide_summary(slide_id) (a query), or
\* segmenter.run_segmentation(...) (a computation)
Summarise ==
    /\ pc = "work"
    /\ task \in InsertTasks
    /\ batch_count = Len(plan)
    /\ \/ pc' = "complete" /\ UNCHANGED exc
       \/ task = "cell_detection" /\ Caught("OperationalError")
    /\ JobFrame
    /\ UNCHANGED <<retries, attempts, losses, outcome, status, writes, n_objects,
                   total_inserted, batch_count, reported, subs>>
    /\ UNCHANGED <<engineVars, NotWorker>>

\* rows = cur.fetchall(); centroids, labels = ...; the engine and the
\* estimator are built on the same arrays
FetchRows ==
    /\ pc = "work"
    /\ task = "spatial_statistics"
    /\ \/ \E c \in SlideRowSets :
             /\ centroids' = c
             /\ n_centroids' = Len(c)
             /\ labels' = IF Len(c) = 0 THEN NoLabels
                          ELSE SomeLabels([k \in 1..Len(c) |->
                                              IF k % 2 = 0 THEN "a" ELSE "b"])
             /\ tree' = IF Len(c) > 0 THEN "KDTree" ELSE "None"
             /\ bounds_param' = SomeBounds(<<0, 0, JobSlide[1], JobSlide[2]>>)
             /\ bounds' = <<0, 0, JobSlide[1], JobSlide[2]>>
             /\ obj' = IF Len(c) = 0 THEN "none" ELSE "job"
             /\ pc' = IF Len(c) = 0 THEN "complete" ELSE "compute"
             /\ UNCHANGED exc
       \/ /\ Caught("OperationalError")
          /\ UNCHANGED <<obj, centroids, n_centroids, labels, tree, bounds,
                         bounds_param>>
    /\ JobFrame
    /\ UNCHANGED <<retries, attempts, losses, outcome, status, writes, n_objects,
                   total_inserted, batch_count, reported, subs>>
    /\ UNCHANGED <<op, args, result, NotWorker>>

Tagged(r) == [tag |-> r.tag, err |-> r.err]

\* The sub-computations in the order of lines 214-244.  They run in one try
\* block: an exception of one of them ends the block, and the later ones are
\* not run.
JobSubs ==
    LET nn == ComputeNearestNeighborDistribution
        hs == ComputeHotspotDetection(JobHotspotGridSize, JobMinHotspotDensity)
        co == IF hs.tag = "raise" THEN NoResult
              ELSE ComputeLabelColocalization(JobColocalizationRadius)
        rk == IF hs.tag = "raise" \/ co.tag = "raise" \/ ~want_ripley
              THEN NoResult
              ELSE ComputeRipleysK(JobRadii, JobSlide[1] * JobSlide[2])
        de == IF hs.tag = "raise" \/ co.tag = "raise" \/ rk.tag = "raise"
              THEN NoResult
              ELSE ComputeGridDensity(JobDensityGridSize, labels)
    IN [nn |-> Tagged(nn), hotspots |-> Tagged(hs), coloc |-> Tagged(co),
        ripleys_k |-> Tagged(rk), density |-> Tagged(de)]

\* lines 212-258: the sub-computations and the result summary
ComputeStatistics ==
    /\ pc = "compute"
    /\ LET r == JobSubs
           raising == {n \in SubNames : r[n].tag = "raise"}
       IN /\ subs' = r
          /\ IF raising # {}
             THEN Caught(r[CHOOSE n \in raising : TRUE].err)
             ELSE pc' = "complete" /\ UNCHANGED exc
    /\ JobFrame
    /\ UNCHANGED <<retries, attempts, losses, outcome, status, writes, n_objects,
                   total_inserted, batch_count, reported>>
    /\ UNCHANGED <<engineVars, NotWorker>>

\* update_job_status(job_id, 'COMPLETED', result_summary=...); return
WriteCompleted ==
    /\ pc = "complete"
    /\ \/ /\ StatusWritten("COMPLETED")
          /\ reported' = total_inserted
          /\ pc' = "return"
          /\ UNCHANGED exc
       \/ Caught("OperationalError") /\ UNCHANGED <<status, writes, reported>>
    /\ JobFrame
    /\ UNCHANGED <<retries, attempts, losses, outcome, n_objects,
                   total_inserted, batch_count, subs>>
    /\ UNCHANGED <<engineVars, NotWorker>>

\* the task body returns; the worker acknowledges the message
Return ==
    /\ pc = "return"
    /\ pc' = "succeeded"
    /\ outcome' = "returned"
    /\ JobFrame
    /\ UNCHANGED <<retries, attempts, losses, status, writes, n_objects,
                   total_inserted, batch_count, reported, exc, subs>>
    /\ UNCHANGED <<engineVars, NotWorker>>

\* except Exception as e: update_job_status(job_id, 'FAILED', ...).  When the
\* write raises, its exception leaves the except clause: the task ends in
\* failure and no retry is requested.
WriteFailed ==
    /\ pc = "except"
    /\ \/ StatusWritten("FAILED") /\ pc' = "retry" /\ UNCHANGED outcome
       \/ pc' = "failed" /\ outcome' = "raised" /\ UNCHANGED <<status, writes>>
    /\ JobFrame
    /\ UNCHANGED <<retries, attempts, losses, n_objects, total_inserted,
                   batch_count, reported, exc, subs>>
    /\ UNCHANGED <<engineVars, NotWorker>>

\* raise self.retry(exc=e, countdown=60): a new message with retries + 1, or e
\* itself once max_retries is used up
RequestRetry ==
    /\ pc = "retry"
    /\ IF retries < MaxRetries
       THEN retries' = retries + 1 /\ pc' = "queued" /\ outcome' = "retry"
       ELSE pc' = "failed" /\ outcome' = "raised" /\ UNCHANGED retries
    /\ JobFrame
    /\ UNCHANGED <<attempts, losses, status, writes, n_objects, total_inserted,
                   batch_count, reported, exc, subs>>
    /\ UNCHANGED <<engineVars, NotWorker>>

\* the worker process is lost before the message is acknowledged
WorkerLost ==
    /\ pc \in Running
    /\ losses < MaxLosses
    /\ losses' = losses + 1
    /\ pc' = "queued"
    /\ outcome' = "lost"
    /\ JobFrame
    /\ UNCHANGED <<retries, attempts, status, writes, n_objects, total_inserted,
                   batch_count, reported, exc, subs>>
    /\ UNCHANGED <<engineVars, NotWorker>>

\* the steps a running worker takes
WorkerStep ==
    \/ Deliver
    \/ WriteRunning
    \/ GetSlideInfo
    \/ InsertBatch
    \/ Summarise
    \/ FetchRows
    \/ ComputeStatistics
    \/ WriteCompleted
    \/ Return
    \/ WriteFailed
    \/ RequestRetry

NextWorker ==
    \/ SubmitJob
    \/ WorkerStep
    \/ WorkerLost

SpecWorker == Init /\ [][NextWorker]_vars

\* The broker delivers a queued message and a worker that is not lost takes
\* its next step.
SpecWorkerFair == SpecWorker /\ WF_vars(WorkerStep)

(***************************************************************************)
(* get_db_connection (utils/db_connection.py:33-72), a generator-based     *)
(* context manager, used by one with statement after another.  The         *)
(* with-body runs statements on the connection and ends normally, with an  *)
(* exception of class Exception, or with one outside Exception             *)
(* (KeyboardInterrupt, SystemExit).  conn.commit() and conn.rollback() can *)
(* raise (the server is gone).                                             *)
(***************************************************************************)
BodyEndings == {"ok", "Exception", "BaseException"}

\* variant: no except clause (try / finally only)
AfterBody_NoRollback(ending) == IF ending = "ok" THEN "commit" ELSE "close"

\* where the generator resumes when the with-body has ended:
\*   try: yield conn; conn.commit()
\*   except Exception: conn.rollback(); raise
\*   finally: conn.close()
AfterBody(ending) ==
    IF ending = "ok" THEN "commit"
    ELSE IF ending = "Exception" THEN "rollback"
    ELSE "close"

\* with get_db_connection() as conn: psycopg2.connect(...) runs before the
\* try statement; when it raises there is no connection
EnterWith ==
    /\ cm_pc \in {"none", "done"}
    /\ conns < MaxConns
    /\ calls' = <<>>
    /\ body' = "none"
    /\ pending' = "none"
    /\ \/ cm_pc' = "body" /\ conns' = conns + 1 /\ raised' = "none"
       \/ cm_pc' = "done" /\ raised' = "connect" /\ UNCHANGED conns
    /\ UNCHANGED commits
    /\ UNCHANGED NotConn

\* a statement of the with-body on the connection (cur.execute, copy_expert)
Execute ==
    /\ cm_pc = "body"
    /\ Len(calls) < MaxStatements
    /\ calls' = Append(calls, "execute")
    /\ UNCHANGED <<cm_pc, body, pending, raised, conns, commits>>
    /\ UNCHANGED NotConn

\* the with-body ends; the generator is resumed or thrown into
EndBody ==
    /\ cm_pc = "body"
    /\ \E e \in BodyEndings :
          /\ body' = e
          /\ pending' = IF e = "ok" THEN "none" ELSE "body"
          /\ cm_pc' = AfterBody(e)
    /\ UNCHANGED <<calls, raised, conns, commits>>
    /\ UNCHANGED NotConn

\* conn.commit(); its exception is caught by the except clause
Commit ==
    /\ cm_pc = "commit"
    /\ calls' = Append(calls, "commit")
    /\ \/ commits' = commits + 1 /\ cm_pc' = "close" /\ UNCHANGED pending
       \/ pending' = "commit" /\ cm_pc' = "rollback" /\ UNCHANGED commits
    /\ UNCHANGED <<body, raised, conns>>
    /\ UNCHANGED NotConn

\* conn.rollback(); raise.  An exception of rollback replaces the one in flight.
Rollback ==
    /\ cm_pc = "rollback"
    /\ calls' = Append(calls, "rollback")
    /\ \/ UNCHANGED pending
       \/ pending' = "rollback"
    /\ cm_pc' = "close"
    /\ UNCHANGED <<body, raised, conns, commits>>
    /\ UNCHANGED NotConn

\* finally: conn.close(); the exception in flight reaches the caller
Close ==
    /\ cm_pc = "close"
    /\ calls' = Append(calls, "close")
    /\ raised' = pending
    /\ pending' = "none"
    /\ cm_pc' = "done"
    /\ UNCHANGED <<body, conns, commits>>
    /\ UNCHANGED NotConn

NextConn ==
    \/ EnterWith
    \/ Execute
    \/ EndBody
    \/ Commit
    \/ Rollback
    \/ Close

SpecConn == Init /\ [][NextConn]_vars

(***************************************************************************)
(* CellDetectionSimulator.generate_detections (cell_detection.py:82-114):  *)
(* the generator filters the cells of generate_cells_gmm by confidence and *)
(* yields them in batches.  Confidences are in tenths (np.clip(., 0.1,     *)
(* 1.0)); a cell is carried by its position in the generated sequence.     *)
(***************************************************************************)
Confidences == {1, 5, 10}
ThresholdChoices == {0, 5}
BatchSizeChoices == {0, 1, 2, 3}
SlideIds == {"s1", "s2"}

GeneratedCells == UNION {[1..n -> Confidences] : n \in 0..MaxGenerated}

\* if cell['confidence'] >= confidence_threshold
Accepts(confidence, threshold) == confidence >= threshold

\* cell['slide_id'] = slide_id
TaggedCell(k) ==
    [cell |-> k, confidence |-> gen_cells[k], slide_id |-> slide_id]

\* if len(batch) >= batch_size
BatchFull(b) == Len(b) >= batch_size

\* variant: the batch left after the loop is not yielded
LastYield_Dropped(b) == yielded

\* if batch: yield batch     (after the loop)
LastYield(b) == IF b # <<>> THEN Append(yielded, b) ELSE yielded

\* detector.generate_detections(slide_id, parameters, batch_size)
CallGenerateDetections ==
    /\ gen_pc = "none"
    /\ \E c \in GeneratedCells : \E sid \in SlideIds :
       \E size \in BatchSizeChoices : \E t \in ThresholdChoices :
          /\ gen_cells' = c
          /\ slide_id' = sid
          /\ batch_size' = size
          /\ confidence_threshold' = t
    /\ gen_pc' = "loop"
    /\ UNCHANGED <<gen_pos, batch, yielded>>
    /\ UNCHANGED NotBatch

\* one iteration of `for cell in generator.generate_cells_gmm(...)`
NextCell ==
    /\ gen_pc = "loop"
    /\ gen_pos < Len(gen_cells)
    /\ gen_pos' = gen_pos + 1
    /\ IF Accepts(gen_cells[gen_pos + 1], confidence_threshold)
       THEN LET b == Append(batch, TaggedCell(gen_pos + 1))
            IN IF BatchFull(b)
               THEN yielded' = Append(yielded, b) /\ batch' = <<>>
               ELSE batch' = b /\ UNCHANGED yielded
       ELSE UNCHANGED <<batch, yielded>>
    /\ UNCHANGED <<gen_pc, gen_cells, slide_id, batch_size, confidence_threshold>>
    /\ UNCHANGED NotBatch

\* the loop has ended: the rest is yielded and the generator returns
FinishGenerator ==
    /\ gen_pc = "loop"
    /\ gen_pos = Len(gen_cells)
    /\ yielded' = LastYield(batch)
    /\ gen_pc' = "done"
    /\ UNCHANGED <<gen_cells, slide_id, batch_size, confidence_threshold,
                   gen_pos, batch>>
    /\ UNCHANGED NotBatch

NextBatch ==
    \/ CallGenerateDetections
    \/ NextCell
    \/ FinishGenerator

SpecBatch == Init /\ [][NextBatch]_vars

(***************************************************************************)
(* SyntheticSlideGenerator.generate_cells_gmm and generate_cluster_centers *)
(* (synthetic_generator.py:73-102, 151-185).  The slide is a square of     *)
(* side `width`; self.rng.uniform draws a coordinate at 2, 5 or 8 tenths   *)
(* of the side (inside the margins of one tenth).  Distances are compared  *)
(* by their squares: d > width / (2 sqrt(n)) iff 4 n d^2 > width^2.        *)
(***************************************************************************)
AttemptsPerCluster == 100
WidthChoices == {0, 10}
SampleTenths == {2, 5, 8}
CellCountChoices == {0, 1, 3}

\* x = self.rng.uniform(margin_x, self.config.width - margin_x), y likewise
SamplePoints(w) ==
    {<<(w * a) \div 10, (w * b) \div 10>> : a \in SampleTenths, b \in SampleTenths}

\* max_attempts = n_clusters * 100
MaxAttempts == n_clusters * AttemptsPerCluster

\* np.min(distances) > min_distance
FarEnough(p) ==
    \A k \in DOMAIN centers : 4 * n_clusters * Dist2(p, centers[k]) > width * width

\* (cluster_weights * n_cells).astype(int) for weights that sum to 1: every
\* count is the floor of its share, so the counts sum to more than
\* n_cells - n_clusters and to at most n_cells
FloorCounts(n, cells) ==
    {f \in [1..n -> 0..cells] :
        LET t == SumOver(f, 1..n) IN t <= cells /\ t > cells - n}

\* cells_per_cluster[-1] += n_cells - cells_per_cluster.sum()
WithRemainder(f, n, cells) ==
    [f EXCEPT ![n] = f[n] + (cells - SumOver(f, 1..n))]

\* generate_cells_gmm(n_cells, n_clusters) calls generate_cluster_centers
CallGenerateCellsGmm ==
    /\ cc_pc = "none"
    /\ \E w \in WidthChoices : \E n \in 1..MaxClusters : \E c \in CellCountChoices :
          /\ width' = w
          /\ n_clusters' = n
          /\ n_cells' = c
    /\ cc_pc' = "centers"
    /\ UNCHANGED <<centers, c_attempts, cells_per_cluster>>
    /\ UNCHANGED NotCenters

\* one iteration of the while loop of generate_cluster_centers
SampleCenter ==
    /\ cc_pc = "centers"
    /\ Len(centers) < n_clusters
    /\ c_attempts < MaxAttempts
    /\ \E p \in SamplePoints(width) :
          centers' = IF Len(centers) = 0 \/ FarEnough(p)
                     THEN Append(centers, p)
                     ELSE centers
    /\ c_attempts' = c_attempts + 1
    /\ UNCHANGED <<cc_pc, width, n_clusters, n_cells, cells_per_cluster>>
    /\ UNCHANGED NotCenters

\* the loop ends; return np.array(centers)
ReturnCenters ==
    /\ cc_pc = "centers"
    /\ ~(Len(centers) < n_clusters /\ c_attempts < MaxAttempts)
    /\ cc_pc' = "returned"
    /\ UNCHANGED <<width, n_clusters, centers, c_attempts, n_cells,
                   cells_per_cluster>>
    /\ UNCHANGED NotCenters

\* lines 168-176: the cells are assigned to the clusters, then the loop over
\* range(n_clusters) reads centers[cluster_idx]
AssignCells ==
    /\ cc_pc = "returned"
    /\ \E f \in FloorCounts(n_clusters, n_cells) :
          cells_per_cluster' = WithRemainder(f, n_clusters, n_cells)
    /\ cc_pc' = IF Len(centers) < n_clusters THEN "IndexError" ELSE "done"
    /\ UNCHANGED <<width, n_clusters, centers, c_attempts, n_cells>>
    /\ UNCHANGED NotCenters

NextCenters ==
    \/ CallGenerateCellsGmm
    \/ SampleCenter
    \/ ReturnCenters
    \/ AssignCells

SpecCenters == Init /\ [][NextCenters]_vars

(***************************************************************************)
(* Claims.                                                                 *)
(***************************************************************************)

\* C1: every operation, on any point set (N = 0, N = 1 and point sets whose
\* points share an x or a y coordinate included), ends by returning a value or
\* an error value; no call ends in an uncaught exception.
C1_NoUncaughtException == result.tag # "raise"

C3_NearestNeighborSize ==
    op = "nearest_neighbor" =>
        IF N <= 1
        THEN /\ result.tag = "error"
             /\ result.err = "Insufficient data points"
             /\ result.queries = 0
        ELSE /\ result.tag = "ok"
             /\ DOMAIN result.val.nn_distances = Idx

C3_Witness ==
    /\ op = "nearest_neighbor"
    /\ N = 1
    /\ result.tag = "error"
    /\ result.queries = 0

\* The distance from point i to its nearest other point, self excluded by
\* index.
NearestOther(i) ==
    MinOf({Dist2(centroids[i], centroids[j]) : j \in Idx \ {i}})

Coincident(i) == \E j \in Idx \ {i} : centroids[j] = centroids[i]

\* C4: for N >= 2 the nearest-neighbour distance of every point i is the
\* minimum over j # i of the distance from point i to point j; a point that
\* coincides with another point has distance 0, and then the reported min is 0.
C4_NearestOtherPoint ==
    (op = "nearest_neighbor" /\ N >= 2) =>
        /\ result.tag = "ok"
        /\ \A i \in Idx :
              /\ result.val.nn_distances[i] = NearestOther(i)
              /\ Coincident(i) => /\ result.val.nn_distances[i] = 0
                                  /\ result.val.min = 0

C4_Witness ==
    /\ op = "nearest_neighbor"
    /\ result.tag = "ok"
    /\ \E i \in Idx : Coincident(i) /\ result.val.nn_distances[i] = 0
    /\ \E i \in Idx : ~Coincident(i) /\ result.val.nn_distances[i] > 0

\* The unordered pairs {i, j}, i # j, at distance <= r.
PairCount(r) ==
    Cardinality({S \in SUBSET Idx :
        /\ Cardinality(S) = 2
        /\ \A i \in S : \A j \in S : Dist2(centroids[i], centroids[j]) <= r * r})

\* k = area * 2 * pairCount(r) / (N * (N - 1)), as an equation of fractions
IsRipleyK(k, r, area) ==
    k.num * (N * (N - 1)) = (area * 2 * PairCount(r)) * k.den

\* C5: for N >= 2 and every radius r of the input sequence (any area),
\* compute_ripleys_k reports k_observed(r) = area * 2 * pairCount(r) /
\* (N * (N - 1)); the output has one entry per input radius, in input order.
ReportsRipleyK ==
    /\ result.tag = "ok"
    /\ result.val.radii = args.radii
    /\ Len(result.val.k_observed) = Len(args.radii)
    /\ \A k \in 1..Len(args.radii) :
          /\ result.val.k_observed[k].den # 0
          /\ IsRipleyK(result.val.k_observed[k], args.radii[k], args.area)

C5_RipleyK == (op = "ripleys_k" /\ N >= 2) => ReportsRipleyK

\* C5, for the areas that do not raise: the reported K is the claimed fraction.
C5_RipleyK_NonZeroArea ==
    (op = "ripleys_k" /\ N >= 2 /\ args.area # 0) => ReportsRipleyK

\* C6 helpers: a point of label l has another point within the radius
HasNeighbor(l, radius) ==
    \E i \in Idx : \E j \in Idx \ {i} :
        /\ labels.arr[i] = l
        /\ Dist2(centroids[i], centroids[j]) <= radius * radius

\* the entries of a row are fractions of one denominator and add up to 1
RowSumsToOne(row) ==
    \E d \in {row[l].den : l \in DOMAIN row} :
        /\ d > 0
        /\ \A l \in DOMAIN row : row[l].den = d
        /\ SumOver([l \in DOMAIN row |-> row[l].num], DOMAIN row) = d

RowIsZero(row) == \A l \in DOMAIN row : row[l].num = 0

\* C6: in the matrix returned by compute_label_colocalization there is a row
\* for every label of the label array and every row has an entry for every
\* label; the row of a label whose points have at least one other point within
\* the radius sums to 1, the row of a label with none is all 0.
C6_ColocalizationRows ==
    (op = "colocalization" /\ result.tag = "ok") =>
        LET M == result.val.colocalization_matrix
            U == {labels.arr[k] : k \in 1..Len(labels.arr)}
        IN /\ DOMAIN M = U
           /\ \A l \in U :
                 /\ DOMAIN M[l] = U
                 /\ IF HasNeighbor(l, args.radius)
                    THEN RowSumsToOne(M[l])
                    ELSE RowIsZero(M[l])

C6_Witness ==
    /\ op = "colocalization"
    /\ result.tag = "ok"
    /\ \E l1 \in LabelSet : \E l2 \in LabelSet :
          /\ \E i \in Idx : labels.arr[i] = l1
          /\ \E i \in Idx : labels.arr[i] = l2
          /\ HasNeighbor(l1, args.radius)
          /\ ~HasNeighbor(l2, args.radius)
          /\ RowSumsToOne(result.val.colocalization_matrix[l1])
          /\ result.val.colocalization_matrix[l1][l2].num = 0
          /\ RowIsZero(result.val.colocalization_matrix[l2])

\* C7: compute_label_colocalization on an engine built without a label array
\* returns the error value 'No labels provided' before any neighbour query,
\* for every point set, the empty one included.
C7_MissingLabels ==
    (op = "colocalization" /\ ~labels.present) =>
        /\ result.tag = "error"
        /\ result.err = "No labels provided"
        /\ result.queries = 0

C7_Witness ==
    /\ op = "colocalization"
    /\ ~labels.present
    /\ N = 0
    /\ result.tag = "error"

\* C8: a label array whose length differs from N is rejected with an
\* InvalidInput error value by compute_label_colocalization and by
\* compute_grid_density(labels=...): no label is read past the end of the
\* array and no surplus label is silently ignored.
C8_LengthMismatchRejected ==
    /\ (op = "colocalization" /\ labels.present /\ Len(labels.arr) # N) =>
          result.tag = "error"
    /\ (op = "grid_density" /\ args.labels.present /\ Len(args.labels.arr) # N) =>
          result.tag = "error"

\* C9: a division by zero in a ratio never raises and never yields an
\* undefined value: compute_ripleys_k and compute_summary_statistics with
\* area = 0 and get_density_at_point with radius = 0 answer with the fallback 0.
C9_ZeroDivisorFallback ==
    /\ (op = "ripleys_k" /\ args.area = 0) =>
          /\ result.tag # "raise"
          /\ result.tag = "ok" =>
                \A k \in 1..Len(args.radii) : result.val.k_observed[k].num = 0
    /\ (op = "summary" /\ args.area = 0) =>
          /\ result.tag # "raise"
          /\ result.tag = "ok" => result.val.density.num = 0
    /\ (op = "density_at_point" /\ args.radius = 0) =>
          /\ result.tag = "ok"
          /\ result.val.kind = "zero"

\* C10 helpers: trunc(a / b) for b > 0, and the clamp to [0, n - 1]
TruncQuotient(a, b) ==
    IF a >= 0
    THEN CHOOSE q \in 0..a : q * b <= a /\ a < (q + 1) * b
    ELSE -(CHOOSE q \in 0..(-a) : q * b <= -a /\ -a < (q + 1) * b)

Clamp(v, n) == IF v < 0 THEN 0 ELSE IF v > n - 1 THEN n - 1 ELSE v

CeilQuotient(a, b) == CHOOSE q \in 0..a : (q - 1) * b < a /\ a <= q * b

ExpectedCol(i) ==
    Clamp(TruncQuotient(centroids[i][1] - bounds[1], args.grid_size),
          CeilQuotient(bounds[3] - bounds[1], args.grid_size))

ExpectedRow(i) ==
    Clamp(TruncQuotient(centroids[i][2] - bounds[2], args.grid_size),
          CeilQuotient(bounds[4] - bounds[2], args.grid_size))

LabelsFit(l) == ~l.present \/ Len(l.arr) = N

\* C10: for a non-empty point set and bounds of positive width and height
\* (labels absent or one per point), compute_grid_density counts every point in
\* exactly one cell, the one of column clamp(trunc((x - min_x) / size), 0,
\* n_x - 1) and row clamp(trunc((y - min_y) / size), 0, n_y - 1), so
\* total_count = N and max_count is the largest cell count; one point at (5, 5)
\* in bounds (0, 0, 10, 10) with size 10 gives a 1 x 1 grid with count 1.
C10_GridAssignment ==
    (/\ op = "grid_density"
     /\ N >= 1
     /\ bounds[3] > bounds[1]
     /\ bounds[4] > bounds[2]
     /\ LabelsFit(args.labels)) =>
        /\ result.tag = "ok"
        /\ \A i \in Idx : <<ExpectedRow(i), ExpectedCol(i)>> \in DOMAIN result.val.grid
        /\ \A rc \in DOMAIN result.val.grid :
              result.val.grid[rc] =
                  Cardinality({i \in Idx : ExpectedRow(i) = rc[1]
                                           /\ ExpectedCol(i) = rc[2]})
        /\ result.val.total_count = N
        /\ \A rc \in DOMAIN result.val.grid : result.val.grid[rc] <= result.val.max_count
        /\ \E rc \in DOMAIN result.val.grid : result.val.grid[rc] = result.val.max_count
        /\ (centroids = << <<5, 5>> >> /\ bounds = <<0, 0, 10, 10>>
            /\ args.grid_size = 10) =>
                /\ result.val.shape = <<1, 1>>
                /\ result.val.grid = [rc \in {<<0, 0>>} |-> 1]
                /\ result.val.max_count = 1
                /\ result.val.total_count = 1

C10_Witness ==
    /\ op = "grid_density"
    /\ result.tag = "ok"
    /\ bounds = <<0, 0, 1, 1>>
    /\ args.grid_size = 1
    /\ N = 3
    /\ \E i \in Idx : centroids[i] = <<1, 1>> /\ ExpectedCol(i) = 0
    /\ \E i \in Idx : centroids[i] = <<0, 0>>
    /\ result.val.total_count = 3

\* self.bounds as the constructor is documented to set it: the caller's
\* rectangle, else the extrema of the points widened by 100, else the default.
ExpectedBounds ==
    IF bounds_param.present THEN bounds_param.rect
    ELSE IF N = 0 THEN <<0, 0, 100000, 80000>>
    ELSE <<MinOf({centroids[i][1] : i \in Idx}) - 100,
           MinOf({centroids[i][2] : i \in Idx}) - 100,
           MaxOf({centroids[i][1] : i \in Idx}) + 100,
           MaxOf({centroids[i][2] : i \in Idx}) + 100>>

ExpectedRows == CeilQuotient(ExpectedBounds[4] - ExpectedBounds[2], args.grid_size)
ExpectedCols == CeilQuotient(ExpectedBounds[3] - ExpectedBounds[1], args.grid_size)

PositiveBounds == bounds[3] > bounds[1] /\ bounds[4] > bounds[2]

\* C11: compute_grid_density returns a grid of n_y = ceil(height / size) rows
\* and n_x = ceil(width / size) columns (row = y-bin, column = x-bin), for the
\* empty point set with any bounds and for a non-empty one with bounds of
\* positive width and height (labels absent or one per point); for the empty
\* point set every cell is 0 and the bounds are the caller's rectangle or, with
\* none given, the default (0, 0, 100000, 80000).
C11_GridShape ==
    (/\ op = "grid_density"
     /\ \/ N = 0
        \/ PositiveBounds /\ LabelsFit(args.labels)) =>
        /\ result.tag = "ok"
        /\ result.val.bounds = ExpectedBounds
        /\ DOMAIN result.val.grid =
              (0..(ExpectedRows - 1)) \X (0..(ExpectedCols - 1))
        /\ N >= 1 => result.val.shape = <<ExpectedRows, ExpectedCols>>
        /\ N = 0 => \A rc \in DOMAIN result.val.grid : result.val.grid[rc] = 0

C11_Witness ==
    /\ op = "grid_density"
    /\ N = 0
    /\ ~bounds_param.present
    /\ args.grid_size = 80000
    /\ result.tag = "ok"
    /\ result.val.bounds = <<0, 0, 100000, 80000>>
    /\ DOMAIN result.val.grid = {<<0, 0>>, <<0, 1>>}
    /\ result.val.grid[<<0, 1>>] = 0

\* C12: when compute_grid_density is given a label array (one label per point,
\* N >= 1, bounds of positive width and height), the result holds exactly one
\* grid per distinct label, each over the cells of the total grid; cell
\* (row, col) of a label's grid counts exactly the points of that label
\* assigned to the cell, so the per-label grids sum cell by cell to the total.
C12_PerLabelGrids ==
    (/\ op = "grid_density"
     /\ N >= 1
     /\ PositiveBounds
     /\ args.labels.present
     /\ Len(args.labels.arr) = N) =>
        /\ result.tag = "ok"
        /\ LET G == result.val.grid
               B == result.val.by_label
               L == args.labels.arr
           IN /\ DOMAIN B = {L[k] : k \in 1..Len(L)}
              /\ \A l \in DOMAIN B :
                    /\ DOMAIN B[l] = DOMAIN G
                    /\ \A rc \in DOMAIN G :
                          B[l][rc] =
                              Cardinality({i \in Idx : /\ L[i] = l
                                                       /\ ExpectedRow(i) = rc[1]
                                                       /\ ExpectedCol(i) = rc[2]})
              /\ \A rc \in DOMAIN G :
                    SumOver([l \in DOMAIN B |-> B[l][rc]], DOMAIN B) = G[rc]

C12_Witness ==
    /\ op = "grid_density"
    /\ N = 3
    /\ result.tag = "ok"
    /\ args.labels.present
    /\ Len(args.labels.arr) = N
    /\ DOMAIN result.val.by_label = {"a", "b"}
    /\ Cardinality(DOMAIN result.val.grid) > 1
    /\ \E rc \in DOMAIN result.val.grid :
          /\ result.val.by_label["a"][rc] = 1
          /\ result.val.by_label["b"][rc] = 1
    /\ \E rc \in DOMAIN result.val.grid :
          /\ result.val.by_label["a"][rc] = 1
          /\ result.val.by_label["b"][rc] = 0

\* The bounding box of the point set and the hotspot grid laid over it.
BoxXMin == MinOf({centroids[i][1] : i \in Idx})
BoxYMin == MinOf({centroids[i][2] : i \in Idx})
BoxWidth == MaxOf({centroids[i][1] : i \in Idx}) - BoxXMin
BoxHeight == MaxOf({centroids[i][2] : i \in Idx}) - BoxYMin
BoxCells ==
    (0..(CeilQuotient(BoxWidth, args.cell_size) - 1))
        \X (0..(CeilQuotient(BoxHeight, args.cell_size) - 1))

\* point i lies in the half-open range of cell (ix, iy)
InHalfOpenCell(i, ix, iy) ==
    /\ BoxXMin + ix * args.cell_size <= centroids[i][1]
    /\ centroids[i][1] < BoxXMin + (ix + 1) * args.cell_size
    /\ BoxYMin + iy * args.cell_size <= centroids[i][2]
    /\ centroids[i][2] < BoxYMin + (iy + 1) * args.cell_size

\* point i lies in cell (ix, iy), the last column and the last row taking the
\* points on the upper edge of the grid as well
InClampedCell(i, ix, iy) ==
    /\ Clamp(TruncQuotient(centroids[i][1] - BoxXMin, args.cell_size),
             CeilQuotient(BoxWidth, args.cell_size)) = ix
    /\ Clamp(TruncQuotient(centroids[i][2] - BoxYMin, args.cell_size),
             CeilQuotient(BoxHeight, args.cell_size)) = iy

\* C13: compute_hotspot_detection partitions the bounding box of the point set
\* (origin at its minimum x and y) into square cells of side s and counts each
\* point in the cell (i, j) whose half-open range [min_x + i*s, min_x + (i+1)*s)
\* x [min_y + j*s, min_y + (j+1)*s) contains it, the points at the maximum x or
\* y included: every reported count is the number of points in the cell's
\* range, and with a threshold that every non-empty cell meets every point lies
\* in the range of a reported cell.
C13_HalfOpenCells ==
    (op = "hotspot" /\ N >= 1) =>
        /\ result.tag = "ok"
        /\ \A k \in DOMAIN result.val.hotspots :
              LET h == result.val.hotspots[k]
              IN h.count =
                    Cardinality({i \in Idx : InHalfOpenCell(i, h.grid_x, h.grid_y)})
        /\ args.min_density <= 1 =>
              \A i \in Idx : \E k \in DOMAIN result.val.hotspots :
                  InHalfOpenCell(i, result.val.hotspots[k].grid_x,
                                 result.val.hotspots[k].grid_y)

\* C13, what the returned lists satisfy: the cells are half-open except that
\* the last column and the last row also take the points on the upper edge.
C13_ClampedCells ==
    (op = "hotspot" /\ N >= 1 /\ result.tag = "ok") =>
        /\ \A k \in DOMAIN result.val.hotspots :
              LET h == result.val.hotspots[k]
              IN h.count =
                    Cardinality({i \in Idx : InClampedCell(i, h.grid_x, h.grid_y)})
        /\ args.min_density <= 1 =>
              \A i \in Idx : \E k \in DOMAIN result.val.hotspots :
                  InClampedCell(i, result.val.hotspots[k].grid_x,
                                result.val.hotspots[k].grid_y)

\* C13 on the calls that return (does not hold): a point on the upper edge of
\* the grid is counted in the last cell, outside that cell's half-open range.
C13_HalfOpenWhenReturned ==
    (op = "hotspot" /\ N >= 1 /\ result.tag = "ok") =>
        \A k \in DOMAIN result.val.hotspots :
            LET h == result.val.hotspots[k]
            IN h.count =
                  Cardinality({i \in Idx : InHalfOpenCell(i, h.grid_x, h.grid_y)})

CellCount(c) == Cardinality({i \in Idx : InClampedCell(i, c[1], c[2])})

SameFrac(a, b) == a.num * b.den = b.num * a.den

C15_SortedByDensity ==
    (op = "hotspot" /\ result.tag = "ok") =>
        LET hs == result.val.hotspots
        IN /\ \A k \in 1..(Len(hs) - 1) : FracGeq(hs[k].density, hs[k + 1].density)
           /\ Len(hs) > 0 => SameFrac(result.val.max_density, hs[1].density)

C15_Witness ==
    /\ op = "hotspot"
    /\ result.tag = "ok"
    /\ Len(result.val.hotspots) = 2
    /\ result.val.hotspots[1].grid_x > result.val.hotspots[2].grid_x
    /\ result.val.hotspots[1].count > result.val.hotspots[2].count

\* the points lie within one cell side of each other in x and in y
WithinOneCell == BoxWidth <= args.cell_size /\ BoxHeight <= args.cell_size

\* C16: for a point set of N >= 1 points that all lie within one cell side of
\* each other in x and in y, compute_hotspot_detection with a threshold at or
\* below N / cell_size^2 * 10000 returns exactly one hotspot, whose count is N.
C16_OneCluster ==
    (/\ op = "hotspot"
     /\ N >= 1
     /\ WithinOneCell
     /\ args.min_density * args.cell_size * args.cell_size <= N * 10000) =>
        /\ result.tag = "ok"
        /\ Len(result.val.hotspots) = 1
        /\ result.val.hotspots[1].count = N

\* C16, for the point sets that differ in x and in y (the four points of
\* (0,0)-(1,1) with cell size 10 among them): one hotspot of count N.
C16_OneCluster_Spread ==
    (/\ op = "hotspot"
     /\ N >= 1
     /\ WithinOneCell
     /\ BoxWidth > 0
     /\ BoxHeight > 0
     /\ args.min_density * args.cell_size * args.cell_size <= N * 10000) =>
        /\ result.tag = "ok"
        /\ Len(result.val.hotspots) = 1
        /\ result.val.hotspots[1].count = N

\* the count of cell (row, col) of the density grid
ExpectedCount(rc) ==
    Cardinality({i \in Idx : ExpectedRow(i) = rc[1] /\ ExpectedCol(i) = rc[2]})

\* C17: compute_smoothed_density with sigma = 0 returns a smoothed_grid equal,
\* cell by cell, to the unsmoothed count grid of the same grid size, for every
\* point set, grids whose largest count exceeds 1 included.  Stated on the
\* calls that return, so that a violation does not rest on a raised exception.
C17_SigmaZeroRoundTrip ==
    (op = "smoothed_density" /\ args.sigma = 0 /\ result.tag = "ok") =>
        \A rc \in DOMAIN result.val.grid :
            /\ result.val.grid[rc] = ExpectedCount(rc)
            /\ result.val.smoothed_grid[rc].num =
                  result.val.grid[rc] * result.val.smoothed_grid[rc].den

\* C17 (amended): with sigma = 0 (bounds of positive width and height) the
\* smoothed_grid is the count grid divided by its largest count, and the zero
\* grid when every count is 0; it equals the count grid cell by cell exactly
\* when the largest count is at most 1.
C17_SigmaZeroRescaled ==
    (op = "smoothed_density" /\ args.sigma = 0 /\ PositiveBounds) =>
        /\ result.tag = "ok"
        /\ LET G == result.val.grid
               S == result.val.smoothed_grid
               mx == MaxOf({ExpectedCount(rc) : rc \in DOMAIN G})
           IN /\ DOMAIN S = DOMAIN G
              /\ \A rc \in DOMAIN G :
                    /\ G[rc] = ExpectedCount(rc)
                    /\ S[rc].den > 0
                    /\ IF mx > 0 THEN S[rc].num * mx = G[rc] * S[rc].den
                       ELSE S[rc].num = 0
              /\ (mx <= 1) <=> (\A rc \in DOMAIN G : S[rc].num = G[rc] * S[rc].den)

C17_Witness ==
    /\ op = "smoothed_density"
    /\ args.sigma = 0
    /\ result.tag = "ok"
    /\ N = 3
    /\ \E rc \in DOMAIN result.val.grid :
          /\ result.val.grid[rc] = 2
          /\ result.val.smoothed_grid[rc].num = result.val.smoothed_grid[rc].den
    /\ \E rc \in DOMAIN result.val.grid :
          /\ result.val.grid[rc] = 1
          /\ 2 * result.val.smoothed_grid[rc].num = result.val.smoothed_grid[rc].den

\* C18: after compute_smoothed_density (it returns for bounds of positive
\* width and height) every value of smoothed_grid lies in [0, 1]; the largest
\* is exactly 1 whenever the count grid has a non-zero cell, and the grid is
\* all zero when the count grid is all zero.
C18_RescaledToOne ==
    op = "smoothed_density" =>
        /\ PositiveBounds => result.tag = "ok"
        /\ result.tag = "ok" =>
              LET G == result.val.grid
                  S == result.val.smoothed_grid
              IN /\ \A rc \in DOMAIN S :
                       /\ S[rc].den > 0
                       /\ 0 <= S[rc].num
                       /\ S[rc].num <= S[rc].den
                 /\ (\E rc \in DOMAIN G : G[rc] > 0) =>
                       \E rc \in DOMAIN S : S[rc].num = S[rc].den
                 /\ (\A rc \in DOMAIN G : G[rc] = 0) =>
                       \A rc \in DOMAIN S : S[rc].num = 0

C18_Witness ==
    /\ op = "smoothed_density"
    /\ args.sigma = 1
    /\ result.tag = "ok"
    /\ N >= 2
    /\ \E rc \in DOMAIN result.val.smoothed_grid :
          result.val.smoothed_grid[rc].num = result.val.smoothed_grid[rc].den
    /\ \E rc \in DOMAIN result.val.smoothed_grid :
          /\ 0 < result.val.smoothed_grid[rc].num
          /\ result.val.smoothed_grid[rc].num < result.val.smoothed_grid[rc].den
    /\ \E rc \in DOMAIN result.val.grid : result.val.grid[rc] = 0

\* A contour level against a smoothed value.  The denominator of a level is a
\* multiple of the denominator the smoothed values share.
LevelGeq(l, v) == l.den % v.den = 0 /\ l.num >= v.num * (l.den \div v.den)
LevelLeq(l, v) == l.den % v.den = 0 /\ l.num <= v.num * (l.den \div v.den)

\* C19: compute_contours (it returns for bounds of positive width and height)
\* returns an empty contour_levels list when no smoothed value exceeds 0.01,
\* as for the empty point set; otherwise it returns exactly n_levels levels in
\* non-decreasing order, each between the smallest and the largest smoothed
\* value above 0.01.
C19_ContourLevels ==
    op = "contours" =>
        /\ PositiveBounds => result.tag = "ok"
        /\ result.tag = "ok" =>
              LET S == result.val.smoothed_grid
                  L == result.val.contour_levels
                  above == {rc \in DOMAIN S : S[rc].num * 100 > S[rc].den}
              IN /\ N = 0 => above = {}
                 /\ IF above = {} THEN L = <<>>
                    ELSE /\ Len(L) = args.n_levels
                         /\ \A k \in 1..(Len(L) - 1) :
                               /\ L[k].den = L[k + 1].den
                               /\ L[k].num <= L[k + 1].num
                         /\ \A k \in 1..Len(L) :
                               /\ \E rc \in above : LevelGeq(L[k], S[rc])
                               /\ \E rc \in above : LevelLeq(L[k], S[rc])

C19_Witness ==
    /\ op = "contours"
    /\ result.tag = "ok"
    /\ args.n_levels = 5
    /\ args.sigma = 1
    /\ Len(result.val.contour_levels) = 5
    /\ result.val.contour_levels[1].num < result.val.contour_levels[2].num
    /\ result.val.contour_levels[2].num < result.val.contour_levels[5].num

\* C20: compute_kde on a point set of fewer than 10 points returns the error
\* value 'Insufficient data for KDE' before the evaluation mesh is built and
\* before a kernel is fitted; for N >= 10 an exception raised while
\* subsampling, fitting the kernel or evaluating it is returned as an error
\* value: a call that ends in an exception has not finished the mesh, and a
\* sample on one line (singular covariance) yields an error value.
C20_KdeErrors ==
    op = "kde" =>
        /\ N < 10 => /\ result.tag = "error"
                     /\ result.err = "Insufficient data for KDE"
                     /\ ~result.val.mesh
                     /\ ~result.val.kernel
        /\ N >= 10 =>
              /\ result.tag = "raise" => ~result.val.mesh
              /\ args.resolution >= 0 => result.tag \in {"ok", "error"}
              /\ result.tag = "error" => /\ result.err = "KDE computation failed"
                                         /\ result.val.mesh
              /\ (args.resolution >= 0 /\ Collinear) =>
                    result.tag = "error" /\ ~result.val.kernel
              /\ args.resolution = 0 => result.tag = "error"

C20_Witness ==
    /\ op = "kde"
    /\ N = 10
    /\ Collinear
    /\ \E i \in Idx : \E j \in Idx : centroids[i] # centroids[j]
    /\ args.resolution = 2
    /\ result.tag = "error"
    /\ result.err = "KDE computation failed"
    /\ result.val.mesh

\* C21: two calls of compute_kde on the same estimator with the same
\* resolution and bandwidth return the same output, also when the point set
\* exceeds the 50,000-point cap and a subsample is drawn.  (compute_kde takes
\* no seed.  Stated for bandwidths other than 0: with bandwidth 0 the outcome
\* depends on the library release, which two calls of one process share.)
KdeRepeated ==
    /\ op = "kde"
    /\ prev.op = "kde"
    /\ prev.args = args
    /\ ~(args.bandwidth.present /\ args.bandwidth.value = 0)

C21_KdeReproducible == KdeRepeated => result = prev.result

\* C21, at or below the cap no subsample is drawn and repeated calls agree
C21_ReproducibleBelowCap ==
    (KdeRepeated /\ N <= SubsampleCap) => result = prev.result

\* a repeated call on more than 50,000 points that returned a surface
C21_Witness ==
    /\ KdeRepeated
    /\ N > SubsampleCap
    /\ result.tag = "ok"
    /\ prev.result.tag = "ok"

\* C22: no operation changes the instance's point array, label array, bounds
\* or spatial index after construction, and no operation reads or writes state
\* shared between instances (here: the process-wide generator): every call
\* leaves all of them as they were.
CallStep == op = "init" /\ op' # "init"

C22_NoSharedState ==
    [][CallStep =>
          UNCHANGED <<centroids, n_centroids, labels, tree, bounds, np_random>>]_vars

\* C22, the instance's own fields: no step after construction changes them
C22_InstanceUnchanged ==
    [][obj # "none" =>
          UNCHANGED <<centroids, n_centroids, labels, tree, bounds>>]_vars

\* C23: in run_spatial_statistics each sub-computation is tagged success or
\* error on its own: when one of them fails or returns an error value, the
\* summary still carries an outcome (a value or an error value) of every
\* sub-computation, and the failure does not fail the attempt.
Computed == task = "spatial_statistics" /\ subs # NoSubs

C23_IndependentTags ==
    Computed =>
        /\ \A n \in SubNames \ {"ripleys_k"} : subs[n].tag \in {"ok", "error"}
        /\ want_ripley => subs["ripleys_k"].tag \in {"ok", "error"}
        /\ exc # "IndexError"

\* C23, rows that differ in x and in y: every sub-computation returns
C23_SpreadRowsTagged ==
    (Computed /\ \E i \in Idx : \E j \in Idx :
                    /\ centroids[i][1] # centroids[j][1]
                    /\ centroids[i][2] # centroids[j][2]) =>
        \A n \in SubNames \ {"ripleys_k"} : subs[n].tag \in {"ok", "error"}

\* C24: in every attempt RUNNING is written before the slide lookup, the
\* generation and the inserts; an attempt that has ended has written exactly
\* one of COMPLETED and FAILED, as its last status write; COMPLETED is written
\* only after all inserts and computations of the attempt succeeded.
AttemptEnded == outcome \in {"returned", "retry", "raised"}
TerminalWrites == {i \in DOMAIN writes : writes[i] \in {"COMPLETED", "FAILED"}}
WorkDone ==
    /\ task \in InsertTasks => batch_count = Len(plan) /\ total_inserted = SumOver(plan, DOMAIN plan)
    /\ task = "spatial_statistics" =>
          \/ N = 0
          \/ Computed /\ \A n \in SubNames : subs[n].tag # "raise"

C24_RunningFirst ==
    pc \in {"lookup", "work", "compute", "complete", "return"} =>
        (Len(writes) >= 1 /\ writes[1] = "RUNNING")

C24_AtMostOneTerminal ==
    /\ Cardinality(TerminalWrites) <= 1
    /\ TerminalWrites # {} => TerminalWrites = {Len(writes)}

C24_CompletedAfterWork ==
    (\E i \in DOMAIN writes : writes[i] = "COMPLETED") => WorkDone

C24_StatusProtocol ==
    /\ C24_RunningFirst
    /\ C24_AtMostOneTerminal
    /\ C24_CompletedAfterWork
    /\ AttemptEnded => TerminalWrites = {Len(writes)} /\ writes # <<>>

\* C25: a task whose every attempt raises is attempted at most 4 times, a
\* retry is requested only after the attempt's FAILED write, the job
\* eventually stops being retried with FAILED as its last written status,
\* and a job whose attempt returned ends with status COMPLETED.
Stopped == pc \in {"succeeded", "failed"}

C25_AttemptBound == attempts - losses <= MaxRetries + 1

C25_RetryAfterFailed ==
    outcome = "retry" => (writes # <<>> /\ writes[Len(writes)] = "FAILED")

C25_Terminates == (pc = "queued") ~> Stopped

C25_RetriesEnd ==
    /\ [](C25_AttemptBound /\ C25_RetryAfterFailed)
    /\ C25_Terminates
    /\ []((pc = "failed" /\ losses = 0) => status = "FAILED")
    /\ [](pc = "succeeded" => status = "COMPLETED")

\* C26: COMPLETED and FAILED are terminal: once the job's row shows one of
\* them, no later step of any attempt changes the status.
C26_TerminalStatus ==
    [][(status \in {"COMPLETED", "FAILED"}) => (status' = status)]_vars

\* C27: when run_cell_detection has reached COMPLETED, the rows the job has
\* committed to spatial_objects, over all its attempts, are as many as the
\* total_cells_detected it reports.
DetectionCompleted ==
    task = "cell_detection" /\ status = "COMPLETED" /\ pc \in {"return", "succeeded"}

C27_RowsMatchReport == DetectionCompleted => n_objects = reported

\* C27, a job that completes in its first attempt
C27_FirstAttempt == (DetectionCompleted /\ attempts = 1) => n_objects = reported

\* C28: get_db_connection commits exactly when the with-body finishes
\* without an exception, rolls back and re-raises the same exception when the
\* body raises, and closes the connection exactly once in both cases; the
\* connection is never committed after a rollback nor used after close.
Count(c) == Cardinality({i \in DOMAIN calls : calls[i] = c})
Before(c, d) ==
    \A i \in DOMAIN calls : \A j \in DOMAIN calls :
        (calls[i] = c /\ calls[j] = d) => i < j
Left == cm_pc = "done" /\ body # "none"

\* the order of the calls on a connection, at every moment
CallOrder ==
    /\ Count("commit") <= 1 /\ Count("rollback") <= 1 /\ Count("close") <= 1
    /\ Before("commit", "rollback")
    /\ \A c \in {"execute", "commit", "rollback"} : Before(c, "close")

C28_CommitRollbackClose ==
    /\ CallOrder
    /\ Left =>
          /\ Count("commit") = 1 <=> body = "ok"
          /\ body # "ok" => (Count("rollback") = 1 /\ raised = "body")
          /\ Count("close") = 1

\* C28 as the code has it: an exception outside the class Exception is not
\* rolled back, an exception of rollback replaces the one of the body, and a
\* commit that raises is rolled back
C28_CommitRollbackCloseException ==
    /\ CallOrder
    /\ Left =>
          /\ Count("commit") = 1 <=> body = "ok"
          /\ body = "Exception" =>
                (Count("rollback") = 1 /\ raised \in {"body", "rollback"})
          /\ body = "BaseException" => (Count("rollback") = 0 /\ raised = "body")
          /\ body = "ok" => (raised = "none" \/ Count("rollback") = 1)
          /\ Count("close") = 1

\* a with-body that raised after a statement: rolled back, closed, re-raised
C28_Witness ==
    /\ Left
    /\ body = "Exception"
    /\ calls = <<"execute", "rollback", "close">>
    /\ raised = "body"

\* C29: generate_detections yields only non-empty batches, every batch but
\* possibly the last has exactly batch_size cells, and the batches, joined in
\* yield order, are exactly the generated cells with confidence >=
\* confidence_threshold, in generation order, each tagged with the slide_id of
\* the call.  (Stated for batch_size >= 1.)
RECURSIVE Flatten(_)
Flatten(bs) == IF bs = <<>> THEN <<>> ELSE Head(bs) \o Flatten(Tail(bs))

RECURSIVE ExpectedCells(_)
ExpectedCells(k) ==
    IF k = 0 THEN <<>>
    ELSE IF gen_cells[k] >= confidence_threshold
    THEN Append(ExpectedCells(k - 1),
                [cell |-> k, confidence |-> gen_cells[k], slide_id |-> slide_id])
    ELSE ExpectedCells(k - 1)

C29_Batches ==
    (gen_pc = "done" /\ batch_size >= 1) =>
        /\ \A k \in DOMAIN yielded : yielded[k] # <<>>
        /\ \A k \in 1..(Len(yielded) - 1) : Len(yielded[k]) = batch_size
        /\ Len(yielded) >= 1 => Len(yielded[Len(yielded)]) <= batch_size
        /\ Flatten(yielded) = ExpectedCells(Len(gen_cells))

\* a call that dropped a cell and yielded a full batch and a shorter last one
C29_Witness ==
    /\ gen_pc = "done"
    /\ batch_size = 2
    /\ \E k \in DOMAIN gen_cells : gen_cells[k] < confidence_threshold
    /\ Len(yielded) = 2
    /\ Len(yielded[2]) = 1
    /\ Len(gen_cells) = 4

\* C30: generate_cluster_centers stops after at most 100 * n_clusters
\* attempts and returns exactly n_clusters centers, any two more than
\* min_distance apart, so that generate_cells_gmm finds a center for every
\* cluster index and distributes exactly n_cells positions over the clusters
\* (counts non-negative, summing to n_cells).
CentersReturned == cc_pc \in {"returned", "done", "IndexError"}

C30_AttemptsBounded == c_attempts <= AttemptsPerCluster * n_clusters

C30_Separated ==
    \A i \in DOMAIN centers : \A j \in DOMAIN centers :
        i # j => 4 * n_clusters * Dist2(centers[i], centers[j]) > width * width

C30_CountsSum ==
    cc_pc \in {"done", "IndexError"} =>
        /\ Len(cells_per_cluster) = n_clusters
        /\ \A k \in DOMAIN cells_per_cluster : cells_per_cluster[k] >= 0
        /\ SumOver(cells_per_cluster, DOMAIN cells_per_cluster) = n_cells

C30_ClusterCenters ==
    /\ C30_AttemptsBounded
    /\ C30_Separated
    /\ C30_CountsSum
    /\ CentersReturned => Len(centers) = n_clusters
    /\ cc_pc # "IndexError"

====
